---- MODULE Spec2Model ----
(***************************************************************************)
(* PromptLab desktop: the threshold calibrator (compute_threshold), the    *)
(* clipboard watcher loop (start_clipboard_watcher) and the foreground     *)
(* commands that share its state (threshold, interval, counter,            *)
(* vocabulary), modelled from apps/desktop/src-tauri/src/main.rs and       *)
(* crates/core/src/storage.rs.                                             *)
(*                                                                         *)
(* Numbers: an f64 confidence or threshold c is the integer 100 * c, so    *)
(* 0.1 is 10 and the grid 0.0, 0.1, ..., 1.0 is 0, 10, ..., 100.  An       *)
(* accuracy correct / total is kept as the count `correct` beside `total`: *)
(* within one call total is fixed and total > 0, so acc > best.1 is        *)
(* correct > best.correct.                                                 *)
(***************************************************************************)
EXTENDS Integers, Sequences, FiniteSets, TLC

VARIABLES
    prompts,        \* storage: the prompts table, most recently written first
    analyses,       \* storage: the analyses table (prompt ids, newest first)
    suggestion,     \* what optimize_threshold returned, if it was the last command
    threshold,      \* AppState.prompt_conf_threshold
    interval,       \* AppState.optimize_interval
    counter,        \* AppState.optimize_counter
    locks,          \* holder of each Mutex: "free", "watcher" or "ui"
    wpc,            \* the watcher thread's position in its loop
    wl,             \* the watcher thread's locals
    vocabulary,     \* AppState.vocabulary (in memory)
    vocabFile,      \* vocabulary.json on disk
    upc,            \* the foreground command thread's position
    ul,             \* the foreground command thread's locals
    hist,           \* history variables (not program state)
    db              \* storage in full: the tables, the clock, the ids issued

vars == <<prompts, analyses, suggestion, threshold, interval, counter, locks,
          wpc, wl, vocabulary, vocabFile, upc, ul, hist, db>>

(***************************************************************************)
(* Bounds of the model.                                                    *)
(***************************************************************************)
\* longest prompts table drawn as input of compute_threshold
MaxPrompts == 3
\* largest recalibration interval seeded from configuration
MaxInterval == 2
\* most entries of a vocabulary file read at startup
MaxFileEntries == 2
\* the longest body drawn freely from SegmentInputs, in segments
MaxBodySegments == 2
\* the hash seeds a HashMap is iterated under are 0..MaxHashSeed
MaxHashSeed == 3
\* most ids the store issues (rows ever inserted, over the three tables)
MaxRows == 2
\* the last instant of the clock; it starts at 0
MaxClock == 1

(***************************************************************************)
(* serde_json values, as far as the code reads them.                       *)
(*   kind "null"   : null or an absent key                                 *)
(*   kind "bool"   : v = 1 for true, 0 for false                           *)
(*   kind "int"    : a JSON integer v                                      *)
(*   kind "num"    : a JSON non-integer number, v = 100 * value            *)
(*   kind "text"   : a JSON string                                         *)
(***************************************************************************)
JNull == [kind |-> "null", v |-> 0]
JBool(b) == [kind |-> "bool", v |-> IF b THEN 1 ELSE 0]
JInt(i) == [kind |-> "int", v |-> i]
JNum(c) == [kind |-> "num", v |-> c]
JText == [kind |-> "text", v |-> 0]

\* Option<T>
None == [some |-> FALSE, v |-> 0]
Some(x) == [some |-> TRUE, v |-> x]

\* Value::as_bool
as_bool(j) == IF j.kind = "bool" THEN Some(j.v = 1) ELSE None
\* Value::as_i64
as_i64(j) == IF j.kind = "int" THEN Some(j.v) ELSE None
\* Value::as_f64 (an integer converts), in hundredths
as_f64(j) ==
    IF j.kind = "num" THEN Some(j.v)
    ELSE IF j.kind = "int" THEN Some(100 * j.v)
    ELSE None

\* metadata["qwen_clipboard_pred"]: null, or an object with two keys
NoPred == [object |-> FALSE, is_prompt |-> JNull, confidence |-> JNull]
PredObj(p, c) == [object |-> TRUE, is_prompt |-> p, confidence |-> c]
\* the metadata keys compute_threshold reads
Meta(l, p) == [is_prompt_label |-> l, qwen_clipboard_pred |-> p]

(***************************************************************************)
(* compute_threshold                                                       *)
(***************************************************************************)
\* meta.get("is_prompt_label").and_then(as_bool).or_else(as_i64 != 0)
label_of(meta) ==
    IF as_bool(meta.is_prompt_label).some THEN as_bool(meta.is_prompt_label)
    ELSE IF as_i64(meta.is_prompt_label).some
         THEN Some(as_i64(meta.is_prompt_label).v # 0)
         ELSE None

\* pred_obj.and_then(|o| o.get("is_prompt")).and_then(as_bool)
model_flag(meta) ==
    IF meta.qwen_clipboard_pred.object
    THEN as_bool(meta.qwen_clipboard_pred.is_prompt) ELSE None

model_conf_default(meta) ==
    IF meta.qwen_clipboard_pred.object
    THEN (IF as_f64(meta.qwen_clipboard_pred.confidence).some
          THEN as_f64(meta.qwen_clipboard_pred.confidence) ELSE Some(0))
    ELSE None

\* pred_obj.and_then(|o| o.get("confidence")).and_then(as_f64)
model_conf(meta) ==
    IF meta.qwen_clipboard_pred.object
    THEN as_f64(meta.qwen_clipboard_pred.confidence) ELSE None

\* the loop over prompts: samples.push((lbl, flag, conf)) when all three are Some
RECURSIVE collect_samples(_)
collect_samples(ps) ==
    IF ps = <<>> THEN <<>>
    ELSE LET meta == Head(ps).metadata
             rest == collect_samples(Tail(ps))
         IN  IF label_of(meta).some /\ model_flag(meta).some /\ model_conf(meta).some
             THEN <<[lbl |-> label_of(meta).v,
                     flag |-> model_flag(meta).v,
                     conf |-> model_conf(meta).v]>> \o rest
             ELSE rest

thresholds_from_tenth == <<10, 20, 30, 40, 50, 60, 70, 80, 90, 100>>

\* let thresholds = [0.0, 0.1, ..., 1.0]
thresholds == <<0, 10, 20, 30, 40, 50, 60, 70, 80, 90, 100>>

predicted_prompt_gt(flag, conf, t) == IF ~flag /\ conf > t THEN FALSE ELSE TRUE

\* if !flag && *conf >= t { false } else { true }
predicted_prompt(flag, conf, t) == IF ~flag /\ conf >= t THEN FALSE ELSE TRUE

\* the inner loop: correct += 1 for each sample whose prediction is its label
RECURSIVE count_correct(_, _)
count_correct(samples, t) ==
    IF samples = <<>> THEN 0
    ELSE (IF predicted_prompt(Head(samples).flag, Head(samples).conf, t) = Head(samples).lbl
          THEN 1 ELSE 0) + count_correct(Tail(samples), t)

better_or_equal(correct, bestCorrect) == correct >= bestCorrect

\* if acc > best.1
better(correct, bestCorrect) == correct > bestCorrect

\* the outer loop from grid index i on, best = (threshold, correct)
RECURSIVE best_from(_, _, _)
best_from(i, best, samples) ==
    IF i > Len(thresholds) THEN best
    ELSE LET t == thresholds[i]
             correct == count_correct(samples, t)
         IN  best_from(i + 1,
                       IF better(correct, best.correct)
                       THEN [t |-> t, correct |-> correct] ELSE best,
                       samples)

RECURSIVE count_label(_, _)
count_label(samples, l) ==
    IF samples = <<>> THEN 0
    ELSE (IF Head(samples).lbl = l THEN 1 ELSE 0) + count_label(Tail(samples), l)

\* Result<ThresholdSuggestion, String>; accuracy is correct / total
SuggestErr(why) ==
    [ok |-> FALSE, err |-> why, best_threshold |-> 0, correct |-> 0, total |-> 0,
     positive |-> 0, negative |-> 0]

compute_threshold(ps) ==
    LET samples == collect_samples(ps)
        best == best_from(1, [t |-> 0, correct |-> 0], samples)
    IN  IF samples = <<>> THEN SuggestErr("no labeled samples with model prediction")
        ELSE [ok |-> TRUE, err |-> "", best_threshold |-> best.t, correct |-> best.correct,
              total |-> Len(samples),
              positive |-> count_label(samples, TRUE),
              negative |-> count_label(samples, FALSE)]

\* storage.list_prompts().map_err(..)? then compute_threshold(&prompts)
optimize_threshold_internal(listed, ps) ==
    IF listed THEN compute_threshold(ps) ELSE SuggestErr("storage")

(***************************************************************************)
(* Storage (crates/core/src/storage.rs), as the ordered record store the   *)
(* commands see.  A prompt is [id, body, metadata]; list_prompts orders by *)
(* updated_at descending, so the table is kept most recently written first.*)
(***************************************************************************)
\* find_prompt_by_body: SELECT ... WHERE body = ?1 LIMIT 1
find_prompt_by_body(ps, body) == \E i \in 1..Len(ps) : ps[i].body = body

\* create_prompt: INSERT with a fresh id, created_at = updated_at = now
create_prompt(ps, body, metadata) ==
    <<[id |-> Len(ps) + 1, body |-> body, metadata |-> metadata]>> \o ps

RECURSIVE without_id(_, _)
without_id(ps, id) ==
    IF ps = <<>> THEN <<>>
    ELSE IF Head(ps).id = id THEN without_id(Tail(ps), id)
    ELSE <<Head(ps)>> \o without_id(Tail(ps), id)

\* update_prompt with changes.metadata = Some(metadata): the row keeps its id
\* and body, takes the metadata and updated_at = now; no row: Ok(None)
update_prompt(ps, id, metadata) ==
    IF \E i \in 1..Len(ps) : ps[i].id = id
    THEN LET old == CHOOSE r \in {ps[i] : i \in 1..Len(ps)} : r.id = id
         IN  <<[old EXCEPT !.metadata = metadata]>> \o without_id(ps, id)
    ELSE ps

(***************************************************************************)
(* The remote classifier.  A reply is the outcome of call_qwen_chat: it    *)
(* failed, or it returned a JSON object of which two keys are read.        *)
(***************************************************************************)
QwenFailed == [failed |-> TRUE, is_prompt |-> JNull, confidence |-> JNull]
QwenReply(p, c) == [failed |-> FALSE, is_prompt |-> p, confidence |-> c]

\* Option<(bool, f64)>
NoVerdict == [some |-> FALSE, flag |-> FALSE, conf |-> 0]
Verdict(f, c) == [some |-> TRUE, flag |-> f, conf |-> c]

\* classify_prompt_with_qwen: Err => None; Ok(value) =>
\* is_prompt.map(|p| (p, confidence.unwrap_or(0.0)))
classify_prompt_with_qwen(reply) ==
    IF reply.failed THEN NoVerdict
    ELSE IF as_bool(reply.is_prompt).some
         THEN Verdict(as_bool(reply.is_prompt).v,
                      IF as_f64(reply.confidence).some
                      THEN as_f64(reply.confidence).v ELSE 0)
         ELSE NoVerdict

\* "qwen_clipboard_pred": qwen_pred.map(|(flag, conf)| json!({..}))
pred_json(qwen_pred) ==
    IF qwen_pred.some THEN PredObj(JBool(qwen_pred.flag), JNum(qwen_pred.conf))
    ELSE NoPred

(***************************************************************************)
(* Strings.  A char is its Unicode code point and a string the sequence of *)
(* its chars: <<65>> is "A", <<97, 32>> is "a ", <<27721>> is the CJK      *)
(* character U+6C49.  A char below 128 is ASCII and takes one byte of      *)
(* UTF-8, a char below 2048 two, a char below 65536 three.                 *)
(***************************************************************************)
\* char::is_ascii
is_ascii(c) == c < 128
\* char::is_whitespace (the Unicode White_Space chars)
is_whitespace(c) ==
    \/ c \in 9..13 \/ c = 32 \/ c = 133 \/ c = 160 \/ c = 5760
    \/ c \in 8192..8202 \/ c \in {8232, 8233, 8239, 8287, 12288}
\* char::to_lowercase, for the ASCII and Latin-1 letters (other scripts of
\* the inputs have no case)
to_lowercase(c) ==
    IF c \in 65..90 THEN c + 32
    ELSE IF c \in 192..222 /\ c # 215 THEN c + 32
    ELSE c

\* str::trim
RECURSIVE trim_start(_)
trim_start(str) ==
    IF str # <<>> /\ is_whitespace(Head(str)) THEN trim_start(Tail(str)) ELSE str
RECURSIVE trim_end(_)
trim_end(str) ==
    IF str # <<>> /\ is_whitespace(str[Len(str)])
    THEN trim_end(SubSeq(str, 1, Len(str) - 1)) ELSE str
trim(str) == trim_end(trim_start(str))

normalize_vocab_term_trim_only(term) == trim(term)

\* normalize_vocab_term: trim, and lower-case when every char is ASCII
normalize_vocab_term(term) ==
    LET cleaned == trim(term)
    IN  IF \A i \in 1..Len(cleaned) : is_ascii(cleaned[i])
        THEN [i \in 1..Len(cleaned) |-> to_lowercase(cleaned[i])]
        ELSE cleaned

\* vocab.retain(|item| *item != cleaned)
RECURSIVE retain_not(_, _)
retain_not(vocab, cleaned) ==
    IF vocab = <<>> THEN <<>>
    ELSE IF Head(vocab) = cleaned THEN retain_not(Tail(vocab), cleaned)
    ELSE <<Head(vocab)>> \o retain_not(Tail(vocab), cleaned)

\* char order: Rust compares strings by their UTF-8 bytes, which is the
\* order of the code points
char_rank(c) == c

\* a < b on String: lexicographic, a proper prefix first
RECURSIVE str_less(_, _)
str_less(a, b) ==
    IF b = <<>> THEN FALSE
    ELSE IF a = <<>> THEN TRUE
    ELSE IF char_rank(Head(a)) # char_rank(Head(b))
         THEN char_rank(Head(a)) < char_rank(Head(b))
         ELSE str_less(Tail(a), Tail(b))

\* insertion of one string into a sorted list, before the first greater one
RECURSIVE insert_sorted(_, _)
insert_sorted(list, x) ==
    IF list = <<>> THEN <<x>>
    ELSE IF str_less(x, Head(list)) THEN <<x>> \o list
    ELSE <<Head(list)>> \o insert_sorted(Tail(list), x)

sort_unsorted(list) == list

\* Vec::sort
RECURSIVE sort(_)
sort(list) ==
    IF list = <<>> THEN <<>>
    ELSE insert_sorted(sort(SubSeq(list, 1, Len(list) - 1)), list[Len(list)])

\* Vec::dedup: consecutive equal elements collapse to the first
RECURSIVE dedup(_)
dedup(list) ==
    IF Len(list) < 2 THEN list
    ELSE IF list[1] = list[2] THEN dedup(Tail(list))
    ELSE <<list[1]>> \o dedup(Tail(list))

\* .map(normalize_vocab_term).filter(|item| !item.is_empty())
RECURSIVE cleaned_entries(_)
cleaned_entries(entries) ==
    IF entries = <<>> THEN <<>>
    ELSE LET item == normalize_vocab_term(Head(entries))
         IN  (IF item = <<>> THEN <<>> ELSE <<item>>) \o cleaned_entries(Tail(entries))

\* load_vocabulary on a file holding the JSON array `entries` (a missing or
\* unparsable file loads as the empty array does: Vec::new())
load_vocabulary(entries) == dedup(sort(cleaned_entries(entries)))

\* Result<Vec<String>, String> handed to the caller of a vocabulary command
NoReturn == [returned |-> FALSE, ok |-> FALSE, list |-> <<>>]
VocabOk(list) == [returned |-> TRUE, ok |-> TRUE, list |-> list]
VocabErr == [returned |-> TRUE, ok |-> FALSE, list |-> <<>>]
\* the command thread's locals: the command it runs, its normalized term, the
\* vocabulary clone of summarize_prompt, and the return value
\* Result<T, String> of a storage command: Ok(v[1]), or Err(why)
NoOut == [returned |-> FALSE, ok |-> FALSE, v |-> <<>>, why |-> ""]
OutOk(value) == [returned |-> TRUE, ok |-> TRUE, v |-> <<value>>, why |-> ""]
OutErr(why) == [returned |-> TRUE, ok |-> FALSE, v |-> <<>>, why |-> why]
UiLocals ==
    [cmd |-> "", term |-> <<>>, body |-> <<>>, snapshot |-> <<>>,
     ret |-> NoReturn, analysis |-> <<>>,
     id |-> 0, payload |-> <<>>, rows |-> <<>>, row |-> <<>>, imported |-> 0,
     out |-> NoOut, before |-> <<>>]
\* the command thread returning r from command c: its locals are gone
UiReturn(c, r) == [UiLocals EXCEPT !.cmd = c, !.ret = r]

(***************************************************************************)
(* The analysis pipeline (crates/core/src/lib.rs, mod analysis).           *)
(***************************************************************************)
\* bytes of a char in UTF-8
len_utf8(c) == IF c < 128 THEN 1 ELSE IF c < 2048 THEN 2 ELSE IF c < 65536 THEN 3 ELSE 4
\* str::len: the length in bytes, one per char and one more for each byte a
\* char takes beyond its first
str_len(str) ==
    Len(str) + Cardinality({i \in 1..Len(str) : len_utf8(str[i]) >= 2})
             + Cardinality({i \in 1..Len(str) : len_utf8(str[i]) >= 3})
             + Cardinality({i \in 1..Len(str) : len_utf8(str[i]) >= 4})
\* str::to_lowercase
str_to_lowercase(str) == [i \in 1..Len(str) |-> to_lowercase(str[i])]
\* .chars().take(n).collect()
take(str, n) == SubSeq(str, 1, IF Len(str) < n THEN Len(str) ELSE n)
\* .chars().all(|c| c.is_ascii())
all_ascii(str) == \A i \in 1..Len(str) : is_ascii(str[i])
\* char::is_ascii_digit
is_ascii_digit(c) == c \in 48..57
\* .chars().all(|c| c.is_ascii_digit())
all_ascii_digit(str) == \A i \in 1..Len(str) : is_ascii_digit(str[i])
\* char::is_ascii_punctuation
is_ascii_punctuation(c) ==
    c \in 33..47 \/ c \in 58..64 \/ c \in 91..96 \/ c \in 123..126
\* the CJK marks of trim_punctuation: U+FF0C U+3002 U+FF01 U+FF1F U+3001
\* U+FF1B U+FF1A U+FF08 U+FF09 U+3010 U+3011
CjkPunctuation ==
    {65292, 12290, 65281, 65311, 12289, 65307, 65306, 65288, 65289, 12304, 12305}

\* trim_punctuation: trim_matches(ASCII punctuation or one of the CJK marks)
RECURSIVE trim_punctuation_start(_)
trim_punctuation_start(token) ==
    IF token # <<>> /\ (is_ascii_punctuation(Head(token)) \/ Head(token) \in CjkPunctuation)
    THEN trim_punctuation_start(Tail(token)) ELSE token
RECURSIVE trim_punctuation_end(_)
trim_punctuation_end(token) ==
    IF token # <<>> /\ (is_ascii_punctuation(token[Len(token)])
                        \/ token[Len(token)] \in CjkPunctuation)
    THEN trim_punctuation_end(SubSeq(token, 1, Len(token) - 1)) ELSE token
trim_punctuation(token) == trim_punctuation_end(trim_punctuation_start(token))

\* normalize_token
normalize_token(token) ==
    LET cleaned == trim_punctuation(token)
    IN  IF cleaned = <<>> THEN <<>>
        ELSE IF all_ascii(cleaned) THEN str_to_lowercase(cleaned)
        ELSE cleaned

\* is_meaningful_str (is_meaningful is the same function)
is_meaningful_str(token) ==
    LET trimmed == trim_punctuation(token)
    IN  IF trimmed = <<>> THEN FALSE
        ELSE IF all_ascii_digit(trimmed) THEN FALSE
        ELSE Len(trimmed) > 1 \/ str_len(trimmed) > 3
is_meaningful(token) == is_meaningful_str(token)

\* is_numeric_token
is_numeric_token(token) ==
    LET trimmed == trim_punctuation(token)
    IN  IF trimmed = <<>> THEN FALSE
        ELSE IF all_ascii_digit(trimmed) THEN TRUE
        ELSE \E i \in 1..Len(trimmed) : is_ascii_digit(trimmed[i])

\* is_noise_ascii
is_noise_ascii(token) == str_len(token) <= 1 \/ all_ascii_digit(token)

\* pat occurs in str at char position i
occurs_at(str, pat, i) ==
    /\ i + Len(pat) - 1 <= Len(str)
    /\ \A j \in 1..Len(pat) : str[i + j - 1] = pat[j]
\* str::contains
contains(str, pat) == \E i \in 1..(Len(str) + 1) : occurs_at(str, pat, i)
\* str::find: the first position of pat, for a str that contains it
find(str, pat) ==
    CHOOSE i \in 1..(Len(str) + 1) :
        occurs_at(str, pat, i) /\ \A k \in 1..(i - 1) : ~occurs_at(str, pat, k)
\* str::replacen(pat, "", 1)
remove_first(str, pat) ==
    IF contains(str, pat)
    THEN SubSeq(str, 1, find(str, pat) - 1)
         \o SubSeq(str, find(str, pat) + Len(pat), Len(str))
    ELSE str
\* str::match_indices(pat).count(): the non-overlapping occurrences from the
\* left, from position i on; the empty pattern matches at every boundary
RECURSIVE match_count_from(_, _, _)
match_count_from(str, pat, i) ==
    LET found == {k \in i..Len(str) : occurs_at(str, pat, k)}
    IN  IF pat = <<>> THEN Len(str) + 2 - i
        ELSE IF found = {} THEN 0
        ELSE 1 + match_count_from(str, pat,
                     (CHOOSE k \in found : \A o \in found : k <= o) + Len(pat))
match_count(str, pat) == match_count_from(str, pat, 1)

\* str::split(|c| is_delim(c)) for a set of delimiter chars: the pieces
\* between delimiters, empty ones included
RECURSIVE split_on(_, _)
split_on(str, delims) ==
    IF \A i \in 1..Len(str) : str[i] \notin delims THEN <<str>>
    ELSE LET k == CHOOSE i \in 1..Len(str) :
                      str[i] \in delims /\ \A j \in 1..(i - 1) : str[j] \notin delims
         IN  <<SubSeq(str, 1, k - 1)>> \o split_on(SubSeq(str, k + 1, Len(str)), delims)

\* str::split_whitespace: the maximal runs of non-whitespace chars
RECURSIVE split_whitespace(_)
split_whitespace(str) ==
    LET rest == trim_start(str)
    IN  IF rest = <<>> THEN <<>>
        ELSE IF \A i \in 1..Len(rest) : ~is_whitespace(rest[i]) THEN <<rest>>
        ELSE LET k == CHOOSE i \in 1..Len(rest) :
                          is_whitespace(rest[i])
                          /\ \A j \in 1..(i - 1) : ~is_whitespace(rest[j])
             IN  <<SubSeq(rest, 1, k - 1)>>
                 \o split_whitespace(SubSeq(rest, k + 1, Len(rest)))

\* the concatenation of a list of strings
RECURSIVE concat(_)
concat(list) == IF list = <<>> THEN <<>> ELSE Head(list) \o concat(Tail(list))

\* TOKENIZER.cut(text, true): jieba (an external crate) splits the text into
\* consecutive segments.  The model is given a body as its segments; the
\* text is their concatenation, and the cut of the trimmed text is the
\* segments without the surrounding whitespace
RECURSIVE cut_trim_start(_)
cut_trim_start(segments) ==
    IF segments = <<>> THEN <<>>
    ELSE IF trim_start(Head(segments)) = <<>> THEN cut_trim_start(Tail(segments))
    ELSE <<trim_start(Head(segments))>> \o Tail(segments)
RECURSIVE cut_trim_end(_)
cut_trim_end(segments) ==
    IF segments = <<>> THEN <<>>
    ELSE LET n == Len(segments)
         IN  IF trim_end(segments[n]) = <<>>
             THEN cut_trim_end(SubSeq(segments, 1, n - 1))
             ELSE SubSeq(segments, 1, n - 1) \o <<trim_end(segments[n])>>
cut(segments) == cut_trim_end(cut_trim_start(segments))

\* the closure of tokenize's flat_map, for one segment of the cut
tokens_of_segment(owned) ==
    IF owned = <<>> THEN <<>>
    ELSE IF all_ascii(owned)
    THEN LET parts == split_whitespace(owned)
             trimmed == [i \in 1..Len(parts) |-> trim_punctuation(parts[i])]
             nonempty == SelectSeq(trimmed, LAMBDA t : t # <<>>)
             lowered == [i \in 1..Len(nonempty) |-> str_to_lowercase(nonempty[i])]
         IN  SelectSeq(lowered, LAMBDA t : ~is_noise_ascii(t))
    ELSE LET cleaned == trim_punctuation(owned)
         IN  IF cleaned = <<>> THEN <<>> ELSE <<cleaned>>

\* tokenize(text), on the cut of the text
RECURSIVE tokenize(_)
tokenize(segments) ==
    IF segments = <<>> THEN <<>>
    ELSE tokens_of_segment(Head(segments)) \o tokenize(Tail(segments))

\* STOPWORDS: the words never counted as keywords (the empty string is one)
STOPWORDS ==
    {<<>>, <<30340>>, <<20102>>, <<21644>>, <<19982>>, <<22312>>,
     <<21450>>, <<20197, 21450>>, <<38656, 35201>>, <<25105, 20204>>,
     <<29992, 25143>>, <<36827, 34892>>, <<24076, 26395>>, <<35831>>,
     <<20351, 29992>>, <<36825, 20010>>, <<37027, 20010>>,
     <<36825, 20123>>, <<37027, 20123>>, <<19968, 19979>>,
     <<19968, 20010>>, <<22914, 20309>>, <<24590, 20040>>, <<21527>>,
     <<21602>>, <<21834>>, <<21734>>, <<116, 104, 101>>, <<97, 110, 100>>,
     <<111, 114>>, <<102, 111, 114>>, <<119, 105, 116, 104>>,
     <<105, 110, 116, 111>>, <<102, 114, 111, 109>>, <<116, 111>>,
     <<111, 102>>, <<105, 115>>, <<97, 114, 101>>}
\* TARGET_MARKERS, in the order they are tried: U+9762 U+5411; U+9488 U+5BF9; U+7ED9; U+4E3A; U+9002 U+5408; U+63D0 U+4F9B U+7ED9; U+9002 U+7528 U+4E8E
TARGET_MARKERS ==
    <<<<38754, 21521>>, <<38024, 23545>>, <<32473>>, <<20026>>,
     <<36866, 21512>>, <<25552, 20379, 32473>>, <<36866, 29992, 20110>>>>
\* the patterns of derive_role (the ASCII ones are: role:)
RolePatterns ==
    {<<20316, 20026>>, <<20320, 26159>>, <<20320, 23558>>,
     <<25285, 20219>>, <<25198, 28436>>, <<114, 111, 108, 101, 58>>,
     <<35282, 33394>>}
\* the delimiters derive_role splits on: U+FF0C U+3002 U+FF1B U+FF1A . ;
RoleDelimiters == {65292, 12290, 65307, 65306, 46, 59}
\* the role of a text that names none: U+7A7A
NoRole == <<31354>>
\* the separator of a theme made of targets: U+3001
ThemeSeparator == <<12289>>
\* the summary of an empty text
EmptySummary ==
    <<35831, 36755, 20837, 26377, 25928, 30340, 25552, 31034,
     35789, 20197, 35302, 21457, 20998, 26512>>
\* the prefix of every other summary
SummaryPrefix == <<25552, 31034, 35789, 27010, 35272, 65306>>
\* the tag of a text without keywords: general
General == <<103, 101, 110, 101, 114, 97, 108>>

\* Option<String>
NoString == [some |-> FALSE, v |-> <<>>]
SomeString(str) == [some |-> TRUE, v |-> str]

\* the tokens extract_keywords would count without its stopword test
is_counted_with_stopwords(token) ==
    /\ ~(~is_meaningful(token) \/ is_numeric_token(token))
    /\ normalize_token(token) # <<>>
\* the tokens extract_keywords counts, under the key normalize_token gives
is_counted(token) ==
    /\ ~(~is_meaningful(token) \/ is_numeric_token(token))
    /\ normalize_token(token) # <<>>
    /\ normalize_token(token) \notin STOPWORDS
\* freq after the loop over the tokens: the HashMap as a function of its keys
count_tokens(tokens) ==
    LET counted == {i \in 1..Len(tokens) : is_counted(tokens[i])}
        keys == {normalize_token(tokens[i]) : i \in counted}
    IN  [k \in keys |-> Cardinality({i \in counted : normalize_token(tokens[i]) = k})]
\* *freq.entry(key).or_insert(0) += n
add_count(freq, key, n) ==
    [k \in DOMAIN freq \cup {key} |->
        (IF k \in DOMAIN freq THEN freq[k] ELSE 0) + (IF k = key THEN n ELSE 0)]

\* the loop of boost_vocabulary_terms
RECURSIVE boost_terms(_, _, _)
boost_terms(freq, text, vocab) ==
    IF vocab = <<>> THEN freq
    ELSE LET cleaned == trim(Head(vocab))
             is_ascii_term == all_ascii(cleaned)
             normalized == normalize_token(cleaned)
             haystack == IF is_ascii_term THEN str_to_lowercase(text) ELSE text
             needle == IF is_ascii_term THEN normalized ELSE cleaned
             count == match_count(haystack, needle)
         IN  IF cleaned = <<>> THEN boost_terms(freq, text, Tail(vocab))
             ELSE IF count > 0
             THEN boost_terms(add_count(freq, normalized, count * 3), text, Tail(vocab))
             ELSE boost_terms(freq, text, Tail(vocab))
\* boost_vocabulary_terms
boost_vocabulary_terms(freq, text, vocab) ==
    IF vocab = <<>> \/ text = <<>> THEN freq
    ELSE boost_terms(freq, text, vocab)

\* the comparator of ranked.sort_by without its last key, the token
ranks_before_untied(freq, a, b) ==
    \/ freq[a] > freq[b]
    \/ freq[a] = freq[b] /\ str_len(a) > str_len(b)
\* the comparator of ranked.sort_by with the counts compared the other way
ranks_before_ascending(freq, a, b) ==
    \/ freq[a] < freq[b]
    \/ /\ freq[a] = freq[b]
       /\ \/ str_len(a) > str_len(b)
          \/ str_len(a) = str_len(b) /\ str_less(a, b)
\* the comparator of ranked.sort_by, Ordering::Less: count descending, then
\* byte length descending, then the token ascending
ranks_before(freq, a, b) ==
    \/ freq[a] > freq[b]
    \/ /\ freq[a] = freq[b]
       /\ \/ str_len(a) > str_len(b)
          \/ str_len(a) = str_len(b) /\ str_less(a, b)

\* the keys of a set in ascending order
RECURSIVE ascending(_)
ascending(keys) ==
    IF keys = {} THEN <<>>
    ELSE LET least == CHOOSE a \in keys : \A b \in keys \ {a} : str_less(a, b)
         IN  <<least>> \o ascending(keys \ {least})
\* freq.into_iter(): the order a HashMap yields its keys in is unspecified
\* and differs from one map to the next (RandomState).  Under seed it is
\* the ascending order rotated by seed \div 2 places, reversed for an odd seed
iteration_order(keys, seed) ==
    LET list == ascending(keys)
        n == Len(list)
        rotated == [i \in 1..n |-> list[((i - 1 + seed \div 2) % n) + 1]]
    IN  IF seed % 2 = 1 THEN [i \in 1..n |-> rotated[n + 1 - i]] ELSE rotated
\* one insertion of the stable sort: token goes before the first entry it
\* ranks before
RECURSIVE insert_ranked(_, _, _)
insert_ranked(freq, list, token) ==
    IF list = <<>> THEN <<token>>
    ELSE IF ranks_before(freq, token, Head(list)) THEN <<token>> \o list
    ELSE <<Head(list)>> \o insert_ranked(freq, Tail(list), token)
\* ranked after ranked.sort_by (a stable sort), as the list of its tokens
RECURSIVE ranked(_, _)
ranked(freq, order) ==
    IF order = <<>> THEN <<>>
    ELSE insert_ranked(freq, ranked(freq, SubSeq(order, 1, Len(order) - 1)),
                       order[Len(order)])

\* extract_keywords without .take(8)
extract_keywords_uncapped(tokens, text, vocab, seed) ==
    LET freq == boost_vocabulary_terms(count_tokens(tokens), text, vocab)
    IN  SelectSeq(ranked(freq, iteration_order(DOMAIN freq, seed)),
                  LAMBDA token : Len(token) >= 2 \/ str_len(token) >= 4)
\* extract_keywords, with the seed of its HashMap
extract_keywords(tokens, text, vocab, seed) ==
    LET freq == boost_vocabulary_terms(count_tokens(tokens), text, vocab)
    IN  take(SelectSeq(ranked(freq, iteration_order(DOMAIN freq, seed)),
                       LAMBDA token : Len(token) >= 2 \/ str_len(token) >= 4), 8)

\* what one iteration of extract_targets pushes: nothing or one target
target_at(tokens, idx) ==
    LET token == tokens[idx]
        found == {m \in 1..Len(TARGET_MARKERS) : contains(token, TARGET_MARKERS[m])}
    IN  IF found = {} THEN <<>>
        ELSE LET marker == TARGET_MARKERS[CHOOSE m \in found : \A o \in found : m <= o]
                 tail == trim(remove_first(token, marker))
             IN  IF is_meaningful_str(tail) THEN <<normalize_token(tail)>>
                 ELSE IF idx + 1 <= Len(tokens) /\ is_meaningful(tokens[idx + 1])
                 THEN <<normalize_token(tokens[idx + 1])>>
                 ELSE <<>>
\* targets after the loop of extract_targets, from token idx on
RECURSIVE targets_from(_, _)
targets_from(tokens, idx) ==
    IF idx > Len(tokens) THEN <<>>
    ELSE target_at(tokens, idx) \o targets_from(tokens, idx + 1)
\* extract_targets
extract_targets(tokens) == take(dedup(sort(targets_from(tokens, 1))), 5)

\* derive_topic: the first line that is not blank, trimmed, its first 32 chars
derive_topic(text) ==
    LET lines == split_on(text, {10})
        found == {i \in 1..Len(lines) : trim(lines[i]) # <<>>}
    IN  IF found = {} THEN NoString
        ELSE SomeString(take(trim(lines[CHOOSE i \in found : \A o \in found : i <= o]), 32))

\* [String]::join
RECURSIVE join(_, _)
join(list, sep) ==
    IF list = <<>> THEN <<>>
    ELSE IF Len(list) = 1 THEN Head(list)
    ELSE Head(list) \o sep \o join(Tail(list), sep)

\* derive_theme with the keyword tried before the targets
derive_theme_keyword_first(keywords, targets, text) ==
    LET found == {i \in 1..Len(keywords) : keywords[i] # General}
    IN  IF found # {}
        THEN SomeString(keywords[CHOOSE i \in found : \A o \in found : i <= o])
        ELSE IF targets # <<>> THEN SomeString(join(targets, ThemeSeparator))
        ELSE derive_topic(text)
\* derive_theme
derive_theme(keywords, targets, text) ==
    LET found == {i \in 1..Len(keywords) : keywords[i] # General}
    IN  IF targets # <<>> THEN SomeString(join(targets, ThemeSeparator))
        ELSE IF found # {}
        THEN SomeString(keywords[CHOOSE i \in found : \A o \in found : i <= o])
        ELSE derive_topic(text)

\* derive_role over the whole text
derive_role_whole_text(text) ==
    LET parts == split_on(text, RoleDelimiters)
        found == {i \in 1..Len(parts) :
                     /\ trim(parts[i]) # <<>>
                     /\ \E p \in RolePatterns : contains(trim(parts[i]), p)}
    IN  IF found = {} THEN NoRole
        ELSE take(trim(parts[CHOOSE i \in found : \A o \in found : i <= o]), 48)
\* derive_role
derive_role(text) ==
    LET window == take(text, 200)
        parts == split_on(window, RoleDelimiters)
        found == {i \in 1..Len(parts) :
                     /\ trim(parts[i]) # <<>>
                     /\ \E p \in RolePatterns : contains(trim(parts[i]), p)}
    IN  IF found = {} THEN NoRole
        ELSE take(trim(parts[CHOOSE i \in found : \A o \in found : i <= o]), 48)

\* PromptAnalysis of summarize_prompt_with_vocab with derive_topic alone as
\* the topic
summarize_prompt_with_vocab_topic_line(body, vocab, seed) ==
    LET normalized == trim(concat(body))
        tokens == tokenize(cut(body))
        extracted == extract_keywords(tokens, normalized, vocab, seed)
        keywords == IF extracted = <<>> THEN <<General>> ELSE extracted
        target_entities == extract_targets(tokens)
        theme == derive_theme(keywords, target_entities, normalized)
    IN  [summary |-> IF normalized = <<>> THEN EmptySummary
                     ELSE SummaryPrefix \o take(normalized, 160),
         suggested_tags |-> keywords,
         length |-> Len(normalized),
         topic |-> derive_topic(normalized),
         theme |-> theme,
         role |-> derive_role(normalized),
         target_entities |-> target_entities]
\* PromptAnalysis of summarize_prompt_with_vocab with the length taken of the
\* body as given
summarize_prompt_with_vocab_untrimmed(body, vocab, seed) ==
    LET normalized == trim(concat(body))
        tokens == tokenize(cut(body))
        extracted == extract_keywords(tokens, normalized, vocab, seed)
        keywords == IF extracted = <<>> THEN <<General>> ELSE extracted
        target_entities == extract_targets(tokens)
        theme == derive_theme(keywords, target_entities, normalized)
    IN  [summary |-> IF normalized = <<>> THEN EmptySummary
                     ELSE SummaryPrefix \o take(normalized, 160),
         suggested_tags |-> keywords,
         length |-> Len(concat(body)),
         topic |-> IF theme.some THEN theme ELSE derive_topic(normalized),
         theme |-> theme,
         role |-> derive_role(normalized),
         target_entities |-> target_entities]
\* summarize_prompt_with_vocab: the PromptAnalysis of a body, given as the
\* segments jieba cuts it into, without the id (a fresh UUID); seed is the
\* hash seed of the HashMap extract_keywords counts in
summarize_prompt_with_vocab(body, vocab, seed) ==
    LET normalized == trim(concat(body))
        tokens == tokenize(cut(body))
        extracted == extract_keywords(tokens, normalized, vocab, seed)
        keywords == IF extracted = <<>> THEN <<General>> ELSE extracted
        target_entities == extract_targets(tokens)
        theme == derive_theme(keywords, target_entities, normalized)
    IN  [summary |-> IF normalized = <<>> THEN EmptySummary
                     ELSE SummaryPrefix \o take(normalized, 160),
         suggested_tags |-> keywords,
         length |-> Len(normalized),
         topic |-> IF theme.some THEN theme ELSE derive_topic(normalized),
         theme |-> theme,
         role |-> derive_role(normalized),
         target_entities |-> target_entities]

(***************************************************************************)
(* Storage in full (crates/core/src/storage.rs): the three tables as sets  *)
(* of rows, the clock Utc::now() reads and the number of ids issued.  An   *)
(* Option<T> is <<>> or <<x>>.                                             *)
(***************************************************************************)
\* the database Storage::new opens on an empty file, after run_migrations
DbEmpty ==
    [prompts |-> {}, analyses |-> {}, attachments |-> {}, clock |-> 0, issued |-> 0]

\* Value::to_string, for null and the booleans: null, true, false
json_to_string(value) ==
    IF value.kind = "bool"
    THEN (IF value.v = 1 THEN <<116, 114, 117, 101>> ELSE <<102, 97, 108, 115, 101>>)
    ELSE <<110, 117, 108, 108>>
\* serde_json::from_str::<Value>, for the same values: whitespace around the
\* value is skipped; any other text here is an error, <<>>
json_from_str(text) ==
    IF trim(text) = <<110, 117, 108, 108>> THEN <<JNull>>
    ELSE IF trim(text) = <<116, 114, 117, 101>> THEN <<JBool(TRUE)>>
    ELSE IF trim(text) = <<102, 97, 108, 115, 101>> THEN <<JBool(FALSE)>>
    ELSE <<>>
\* DateTime::to_rfc3339: the text of an instant
to_rfc3339(instant) == [rfc3339 |-> instant]
\* parse_datetime
parse_datetime(value) == value.rfc3339

\* row_to_prompt: the Prompt of a row of prompts
row_to_prompt(row) ==
    [id |-> row.id, title |-> row.title, body |-> row.body,
     language |-> row.language, model_hint |-> row.model_hint,
     metadata |-> IF json_from_str(row.metadata) = <<>> THEN JNull
                  ELSE json_from_str(row.metadata)[1],
     created_at |-> parse_datetime(row.created_at),
     updated_at |-> parse_datetime(row.updated_at)]

\* Storage::get_prompt: SELECT ... WHERE id = ?1
Storage_get_prompt(d, id) ==
    IF \E row \in d.prompts : row.id = id
    THEN <<row_to_prompt(CHOOSE row \in d.prompts : row.id = id)>>
    ELSE <<>>

\* Storage::find_prompt_by_body: SELECT ... WHERE body = ?1 LIMIT 1
Storage_find_prompt_by_body(d, body) ==
    IF \E row \in d.prompts : row.body = body
    THEN <<row_to_prompt(CHOOSE row \in d.prompts : row.body = body)>>
    ELSE <<>>

\* Storage::create_prompt: the INSERT, with a fresh id and
\* created_at = updated_at = now
Storage_create_prompt(d, data) ==
    [d EXCEPT !.issued = @ + 1,
              !.prompts = @ \cup
                 {[id |-> d.issued + 1, title |-> data.title, body |-> data.body,
                   language |-> data.language, model_hint |-> data.model_hint,
                   metadata |-> json_to_string(data.metadata),
                   created_at |-> to_rfc3339(d.clock),
                   updated_at |-> to_rfc3339(d.clock)]}]

\* Storage::update_prompt, `updated`: the Prompt read, with the fields the
\* changes hold and updated_at = now
updated_prompt(existing, changes, now) ==
    [id |-> existing.id,
     title |-> IF changes.title # <<>> THEN changes.title[1] ELSE existing.title,
     body |-> IF changes.body # <<>> THEN changes.body[1] ELSE existing.body,
     language |-> IF changes.language # <<>> THEN changes.language[1]
                  ELSE existing.language,
     model_hint |-> IF changes.model_hint # <<>> THEN changes.model_hint[1]
                    ELSE existing.model_hint,
     metadata |-> IF changes.metadata # <<>> THEN changes.metadata[1]
                  ELSE existing.metadata,
     created_at |-> existing.created_at,
     updated_at |-> now]

\* Storage::update_prompt with every field of the row written, created_at too
Storage_update_prompt_touching(d, id, changes) ==
    IF Storage_get_prompt(d, id) = <<>> THEN d
    ELSE LET updated == updated_prompt(Storage_get_prompt(d, id)[1], changes, d.clock)
         IN  [d EXCEPT !.prompts =
                 {IF row.id = id
                  THEN [id |-> row.id, title |-> updated.title, body |-> updated.body,
                        language |-> updated.language,
                        model_hint |-> updated.model_hint,
                        metadata |-> json_to_string(updated.metadata),
                        created_at |-> to_rfc3339(updated.updated_at),
                        updated_at |-> to_rfc3339(updated.updated_at)]
                  ELSE row : row \in @}]
\* Storage::update_prompt: the database after it; without a row of this id
\* nothing is written (Ok(None)), else the UPDATE sets title, body, language,
\* model_hint, metadata and updated_at of the row
Storage_update_prompt(d, id, changes) ==
    IF Storage_get_prompt(d, id) = <<>> THEN d
    ELSE LET updated == updated_prompt(Storage_get_prompt(d, id)[1], changes, d.clock)
         IN  [d EXCEPT !.prompts =
                 {IF row.id = id
                  THEN [id |-> row.id, title |-> updated.title, body |-> updated.body,
                        language |-> updated.language,
                        model_hint |-> updated.model_hint,
                        metadata |-> json_to_string(updated.metadata),
                        created_at |-> row.created_at,
                        updated_at |-> to_rfc3339(updated.updated_at)]
                  ELSE row : row \in @}]

\* Storage::delete_prompt without the cascade of the foreign keys
Storage_delete_prompt_alone(d, id) ==
    [d EXCEPT !.prompts = {row \in @ : row.id # id}]
\* Storage::delete_prompt: DELETE FROM prompts WHERE id = ?1; the foreign keys
\* of analyses and attachments are ON DELETE CASCADE, and every connection
\* of the pool is opened with PRAGMA foreign_keys = ON
Storage_delete_prompt(d, id) ==
    [d EXCEPT !.prompts = {row \in @ : row.id # id},
              !.analyses = {row \in @ : row.prompt_id # id},
              !.attachments = {row \in @ : row.prompt_id # id}]

\* Storage::create_analysis: the INSERT, which the foreign key fails when no
\* prompt has the id
Storage_create_analysis(d, input) ==
    IF \E row \in d.prompts : row.id = input.prompt_id
    THEN [d EXCEPT !.issued = @ + 1,
                   !.analyses = @ \cup
                      {[id |-> d.issued + 1, prompt_id |-> input.prompt_id,
                        summary |-> input.summary,
                        created_at |-> to_rfc3339(d.clock)]}]
    ELSE d

\* Storage::add_attachment: the INSERT, under the same foreign key
Storage_add_attachment(d, payload) ==
    IF \E row \in d.prompts : row.id = payload.prompt_id
    THEN [d EXCEPT !.issued = @ + 1,
                   !.attachments = @ \cup
                      {[id |-> d.issued + 1, prompt_id |-> payload.prompt_id,
                        filename |-> payload.filename]}]
    ELSE d

\* Storage::delete_attachment
Storage_delete_attachment(d, id) ==
    [d EXCEPT !.attachments = {row \in @ : row.id # id}]

(***************************************************************************)
(* Inputs.                                                                 *)
(***************************************************************************)
\* clipboard texts that pass is_potential_prompt, by identity; 0 is a poll
\* the loop skips (get_text failed, or the text is not a potential prompt)
Texts == {1, 2}
ClipInputs == {0} \cup Texts

\* .unwrap_or(0.1)
DefaultThreshold == 10
\* QWEN_PROMPT_THRESHOLD seeds
ThresholdSeeds == {DefaultThreshold}
\* QWEN_OPTIMIZE_INTERVAL seeds (any usize parses, 0 included)
IntervalSeeds == {0, MaxInterval}
\* arguments of set_prompt_threshold: in range and out of range
ThresholdInputs == {60, 110}
\* arguments of set_optimize_interval
IntervalInputs == {0, 1}
\* .min(10_000)
MaxIntervalClamp == 10000

\* arguments of add_vocabulary_entry and remove_vocabulary_entry
TermInputs == {<<65>>, <<32>>}

\* terms given to the vocabulary commands in SpecVocab: "A", " a", a CJK
\* character, "A" before a CJK character, " "
VocabTerms == {<<65>>, <<32, 97>>, <<27721>>, <<65, 27721>>, <<32>>}
\* strings a vocabulary file may hold: "A", "a", " ", a CJK character
RawEntries == {<<65>>, <<97>>, <<32>>, <<27721>>}

\* segments of a body: a space, a line feed, the marker U+7ED9 alone and
\* with a tail (ab), ab, AB, the stopword U+7684, the number 12, the role
\* pattern U+4F5C U+4E3A (which ends in the marker U+4E3A), the delimiter
\* U+FF0C, the stopword U+4EE5 U+53CA and ab1
SegmentInputs ==
    {<<32>>, <<10>>, <<32473>>, <<32473, 97, 98>>, <<97, 98>>, <<65, 66>>,
     <<30340>>, <<49, 50>>, <<20316, 20026>>, <<65292>>, <<20197, 21450>>,
     <<97, 98, 49>>}
\* a word of 161 letters, one more than a summary shows
LongWord == [i \in 1..161 |-> 97]
\* a space, then nine words apart: the marker U+7ED9 before each of af, ae,
\* ad, ac, ab, aa (six targets, in descending order), then bba, bbb, bbc,
\* then the marker before ab again
ManyWords ==
    <<<<32>>>>
    \o [i \in 1..18 |-> IF i % 3 = 1 THEN <<32473>>
                        ELSE IF i % 3 = 2 THEN <<97, 103 - (i + 1) \div 3>>
                        ELSE <<32>>]
    \o [i \in 1..6 |-> IF i % 2 = 1 THEN <<98, 98, 97 + i \div 2>> ELSE <<32>>]
    \o <<<<32473>>, <<97, 98>>>>
\* the payloads of save_prompt: no language and no model hint, and title
\* and body a without metadata, or title and body b with metadata true
PromptPayloads ==
    {[title |-> <<97>>, body |-> <<97>>, language |-> <<>>,
      model_hint |-> <<>>, metadata |-> <<>>],
     [title |-> <<98>>, body |-> <<98>>, language |-> <<>>,
      model_hint |-> <<>>, metadata |-> <<JBool(TRUE)>>]}
\* the payloads of update_prompt, as serde reads them (a field that is
\* absent or null is None): no field, title u and language e, or body b,
\* model hint h and metadata false
UpdatePayloads ==
    {[title |-> <<>>, body |-> <<>>, language |-> <<>>, model_hint |-> <<>>,
      metadata |-> <<>>],
     [title |-> <<<<117>>>>, body |-> <<>>, language |-> <<<<<<101>>>>>>,
      model_hint |-> <<>>, metadata |-> <<>>],
     [title |-> <<>>, body |-> <<<<98>>>>, language |-> <<>>,
      model_hint |-> <<<<<<104>>>>>>, metadata |-> <<JBool(FALSE)>>]}
\* the ids a command names: the first one the store issues, and one it
\* never issues
IdInputs == {1, MaxRows + 1}
\* the outcome of a storage call that writes and then reads the row back: it
\* succeeds, it fails before the write, or the write is done and the read
\* that follows fails
WriteOutcomes == {"ok", "failed", "lost"}
\* the rows of an imported table, by their body and latest_summary cells: a
\* between spaces with a summary, b without one, an empty body, and a record
\* the csv reader fails on
ImportRows ==
    {[body |-> <<32, 97, 32>>, summary |-> <<115>>, broken |-> FALSE],
     [body |-> <<98>>, summary |-> <<>>, broken |-> FALSE],
     [body |-> <<32>>, summary |-> <<>>, broken |-> FALSE],
     [body |-> <<>>, summary |-> <<>>, broken |-> TRUE]}
\* the tables imported: up to two rows
ImportTables == UNION {[1..n -> ImportRows] : n \in 0..2}
\* the hash seeds of the HashMaps of the analyses
HashSeeds == 0..MaxHashSeed
\* a number of 33 digits, one more than a topic shows
LongNumber == [i \in 1..33 |-> 49]
\* three lines, the second blank, without a keyword: 12, a space, U+7684
Lines == <<<<49, 50>>, <<10>>, <<32>>, <<10>>, <<30340>>>>
\* a clause of 52 chars, four more than a role shows: the role pattern
\* U+4F5C U+4E3A and 50 letters, after a clause without a pattern
RoleLong == <<<<97, 98>>, <<65292>>, <<20316, 20026>>, [i \in 1..50 |-> 98]>>
\* the role pattern U+4F5C U+4E3A after 203 chars, outside the 200 chars
\* derive_role reads
RoleFar == <<LongWord, <<65292>>, [i \in 1..40 |-> 98], <<65292>>, <<20316, 20026>>>>
\* a token that is a marker of three chars, U+63D0 U+4F9B U+7ED9 (it ends in
\* the marker U+7ED9), before the token ab; and one that holds the marker
\* U+9762 U+5411 before a tail of two chars (U+5BF9 U+8C61), before ab
MarkerTokens ==
    {<<<<25552, 20379, 32473>>, <<97, 98>>>>,
     <<<<38754, 21521, 23545, 35937>>, <<97, 98>>>>}
\* the bodies analysed
BodyInputs ==
    UNION {[1..n -> SegmentInputs] : n \in 0..MaxBodySegments}
    \cup {<<<<32>>, LongWord, <<10>>>>, ManyWords, <<LongNumber>>, Lines,
          RoleLong, RoleFar}
    \cup MarkerTokens
\* the bodies of summarize_prompt where the analysis is not what is checked
CommandBodies == {<<>>, <<<<32473>>, <<97, 98>>>>}
\* vocabularies as add_vocabulary_entry leaves them: none; ab; ! with the
\* marker U+7ED9; the stopword U+4EE5 U+53CA with ab1
AnalysisVocabularies ==
    {<<>>, <<<<97, 98>>>>, <<<<33>>, <<32473>>>>, <<<<20197, 21450>>, <<97, 98, 49>>>>}

QwenReplies ==
    {QwenFailed} \cup
    {QwenReply(p, c) : p \in {JBool(TRUE), JBool(FALSE), JNull},
                       c \in {JNum(60), JNull}}

(***************************************************************************)
(* State after setup (main, lines 543-589) before any command has run.     *)
(***************************************************************************)
NotCalled == [called |-> FALSE, result |-> SuggestErr("")]
Returned(r) == [called |-> TRUE, result |-> r]

LocksFree ==
    [threshold |-> "free", interval |-> "free", counter |-> "free",
     vocabulary |-> "free"]

\* the watcher's locals; they are reset where the code lets them go out of scope
WatcherLocals ==
    [candidate |-> 0, last |-> 0, qwen_pred |-> NoVerdict,
     suggestion |-> SuggestErr(""), prompt_id |-> 0]

\* history of the last add_vocabulary_entry and of a remove_vocabulary_entry
\* after it: not kept ("off"), none yet ("none"), an add that pushed
\* ("added") or did not ("kept"), a remove after an add that pushed
\* ("removed"); with the vocabulary before the add and the terms given
NoUndo == [stage |-> "none", before |-> <<>>, term |-> <<>>, removed |-> <<>>]
HistInit ==
    [answered |-> FALSE, sinceRecal |-> 0, touched |-> FALSE,
     undo |-> [NoUndo EXCEPT !.stage = "off"]]
\* the history after add_vocabulary_entry(term)
HistAdded(term, pushed) ==
    IF hist.undo.stage = "off" THEN hist
    ELSE [hist EXCEPT !.undo = [stage |-> IF pushed THEN "added" ELSE "kept",
                                before |-> vocabulary, term |-> term,
                                removed |-> <<>>]]
\* the history after remove_vocabulary_entry(term)
HistRemoved(term) ==
    IF hist.undo.stage = "off" THEN hist
    ELSE IF hist.undo.stage = "added"
    THEN [hist EXCEPT !.undo = [@ EXCEPT !.stage = "removed", !.removed = term]]
    ELSE [hist EXCEPT !.undo = NoUndo]

Boot ==
    /\ analyses = <<>>
    /\ suggestion = NotCalled
    /\ counter = 0
    /\ locks = LocksFree
    /\ wpc = "poll"
    /\ wl = WatcherLocals
    /\ vocabulary = <<>>
    /\ vocabFile = <<>>
    /\ upc = "idle"
    /\ ul = UiLocals
    /\ hist = HistInit
    /\ db = DbEmpty

Init ==
    /\ Boot
    /\ prompts = <<>>
    /\ threshold \in ThresholdSeeds
    /\ interval \in IntervalSeeds

(***************************************************************************)
(* Foreground commands (the "ui" thread).                                  *)
(***************************************************************************)
\* #[tauri::command] optimize_threshold: list_prompts, then compute_threshold;
\* no AppState field is written
OptimizeThreshold ==
    /\ upc = "idle"
    /\ \E listed \in BOOLEAN :
         suggestion' = Returned(optimize_threshold_internal(listed, prompts))
    /\ UNCHANGED <<prompts, analyses, threshold, interval, counter, locks,
                   wpc, wl, vocabulary, vocabFile, upc, ul, hist, db>>

\* save_prompt: storage.create_prompt(record) with the payload's metadata; the
\* table is capped at MaxPrompts rows.  The previous command's return value
\* is gone
SavePrompt(body, metadata, io) ==
    /\ upc = "idle"
    /\ Len(prompts) < MaxPrompts
    /\ prompts' = IF io THEN create_prompt(prompts, body, metadata) ELSE prompts
    /\ suggestion' = NotCalled
    /\ UNCHANGED <<analyses, threshold, interval, counter, locks,
                   wpc, wl, vocabulary, vocabFile, upc, ul, hist, db>>

\* set_prompt_threshold: Err for a value outside [0, 1], else lock, assign
SetPromptThreshold(value) ==
    /\ upc = "idle"
    /\ locks.threshold = "free"
    /\ threshold' = IF value < 0 \/ value > 100 THEN threshold ELSE value
    /\ UNCHANGED <<prompts, analyses, suggestion, interval, counter, locks,
                   wpc, wl, vocabulary, vocabFile, upc, ul, hist, db>>

Min(a, b) == IF a < b THEN a ELSE b
Max(a, b) == IF a > b THEN a ELSE b

\* set_optimize_interval: value.max(1).min(10_000), lock, assign
SetOptimizeInterval(value) ==
    /\ upc = "idle"
    /\ locks.interval = "free"
    /\ interval' = Min(Max(value, 1), MaxIntervalClamp)
    /\ hist' = [hist EXCEPT !.touched = hist.touched \/ interval' # interval]
    /\ UNCHANGED <<prompts, analyses, suggestion, threshold, counter, locks,
                   wpc, wl, vocabulary, vocabFile, upc, ul, db>>

\* update_prompt with a metadata patch that sets "is_prompt_label" on the
\* prompt's metadata (how a human label reaches the store)
UpdatePromptLabel(id, lbl) ==
    /\ upc = "idle"
    /\ \E i \in 1..Len(prompts) :
         /\ prompts[i].id = id
         /\ prompts[i].metadata.is_prompt_label # JBool(lbl)
         /\ prompts' = update_prompt(prompts, id,
                [prompts[i].metadata EXCEPT !.is_prompt_label = JBool(lbl)])
    /\ UNCHANGED <<analyses, suggestion, threshold, interval, counter, locks,
                   wpc, wl, vocabulary, vocabFile, upc, ul, hist, db>>

\* add_vocabulary_entry up to persist_vocabulary: Err for an empty term; else
\* lock the vocabulary and push when no entry normalizes to the term.  With
\* nothing pushed the sorted clone is returned and the guard dropped
AddVocabularyEntry(term) ==
    /\ upc = "idle"
    /\ LET normalized == normalize_vocab_term(term)
       IN  IF normalized = <<>>
           THEN /\ upc' = "return"
                /\ ul' = UiReturn("add", VocabErr)
                /\ hist' = HistAdded(term, FALSE)
                /\ UNCHANGED <<vocabulary, locks, db>>
           ELSE /\ locks.vocabulary = "free"
                /\ IF \A i \in 1..Len(vocabulary) :
                         normalize_vocab_term(vocabulary[i]) # normalized
                   THEN /\ vocabulary' = Append(vocabulary, normalized)
                        /\ locks' = [locks EXCEPT !.vocabulary = "ui"]
                        /\ upc' = "persist"
                        /\ ul' = [UiLocals EXCEPT !.cmd = "add", !.term = normalized]
                        /\ hist' = HistAdded(term, TRUE)
                   ELSE /\ upc' = "return"
                        /\ ul' = UiReturn("add", VocabOk(sort(vocabulary)))
                        /\ hist' = HistAdded(term, FALSE)
                        /\ UNCHANGED <<vocabulary, locks, db>>
    /\ UNCHANGED <<prompts, analyses, suggestion, threshold, interval, counter,
                   wpc, wl, vocabFile, db>>

\* remove_vocabulary_entry up to persist_vocabulary: lock, retain, and with
\* nothing removed return the sorted clone and drop the guard
RemoveVocabularyEntry(term) ==
    /\ upc = "idle"
    /\ locks.vocabulary = "free"
    /\ LET cleaned == normalize_vocab_term(term)
       IN  /\ vocabulary' = retain_not(vocabulary, cleaned)
           /\ IF Len(vocabulary') # Len(vocabulary)
              THEN /\ locks' = [locks EXCEPT !.vocabulary = "ui"]
                   /\ upc' = "persist"
                   /\ ul' = [UiLocals EXCEPT !.cmd = "remove", !.term = cleaned]
              ELSE /\ upc' = "return"
                   /\ ul' = UiReturn("remove", VocabOk(sort(vocabulary')))
                   /\ UNCHANGED locks
    /\ hist' = HistRemoved(term)
    /\ UNCHANGED <<prompts, analyses, suggestion, threshold, interval, counter,
                   wpc, wl, vocabFile, db>>

VocabularyPersist_rollback(io) ==
    /\ upc = "persist"
    /\ IF io
       THEN /\ vocabFile' = vocabulary
            /\ upc' = "log"
            /\ UNCHANGED <<locks, ul, vocabulary, db>>
       ELSE /\ vocabFile' = vocabFile
            /\ vocabulary' = IF ul.cmd = "add" THEN retain_not(vocabulary, ul.term)
                             ELSE Append(vocabulary, ul.term)
            /\ upc' = "return"
            /\ locks' = [locks EXCEPT !.vocabulary = "free"]
            /\ ul' = UiReturn(ul.cmd, VocabErr)
    /\ UNCHANGED <<prompts, analyses, suggestion, threshold, interval, counter,
                   wpc, wl, hist, db>>

VocabularyPersist_held(io) ==
    /\ upc = "persist"
    /\ IF io
       THEN /\ vocabFile' = vocabulary
            /\ upc' = "log"
            /\ UNCHANGED <<locks, ul, db>>
       ELSE /\ vocabFile' = vocabFile
            /\ upc' = "return"
            /\ locks' = locks
            /\ ul' = UiReturn(ul.cmd, VocabErr)
    /\ UNCHANGED <<prompts, analyses, suggestion, threshold, interval, counter,
                   wpc, wl, vocabulary, hist, db>>

\* persist_vocabulary(&vocabulary_path, &vocab)?, the vocabulary guard alive:
\* Ok writes the file; Err returns the error string, which drops the guard
\* and leaves the in-memory vocabulary as mutated
VocabularyPersist(io) ==
    /\ upc = "persist"
    /\ IF io
       THEN /\ vocabFile' = vocabulary
            /\ upc' = "log"
            /\ UNCHANGED <<locks, ul, db>>
       ELSE /\ vocabFile' = vocabFile
            /\ upc' = "return"
            /\ locks' = [locks EXCEPT !.vocabulary = "free"]
            /\ ul' = UiReturn(ul.cmd, VocabErr)
    /\ UNCHANGED <<prompts, analyses, suggestion, threshold, interval, counter,
                   wpc, wl, vocabulary, hist, db>>

\* state.log(..) (append_log), the vocabulary guard alive; then the sorted
\* clone is returned and the guard dropped
VocabularyLog ==
    /\ upc = "log"
    /\ upc' = "return"
    /\ locks' = [locks EXCEPT !.vocabulary = "free"]
    /\ ul' = UiReturn(ul.cmd, VocabOk(sort(vocabulary)))
    /\ UNCHANGED <<prompts, analyses, suggestion, threshold, interval, counter,
                   wpc, wl, vocabulary, vocabFile, hist, db>>

\* list_vocabulary: the sorted clone of the vocabulary, cloned under the lock
ListVocabulary ==
    /\ upc = "idle"
    /\ locks.vocabulary = "free"
    /\ upc' = "return"
    /\ ul' = UiReturn("list", VocabOk(sort(vocabulary)))
    /\ UNCHANGED <<prompts, analyses, suggestion, threshold, interval, counter,
                   locks, wpc, wl, vocabulary, vocabFile, hist, db>>

\* the return value of a vocabulary command has gone to its caller
VocabularyReturned ==
    /\ upc = "return"
    /\ upc' = "idle"
    /\ ul' = UiLocals
    /\ UNCHANGED <<prompts, analyses, suggestion, threshold, interval, counter,
                   locks, wpc, wl, vocabulary, vocabFile, hist, db>>

\* optimize_threshold, entered: the command thread is inside
\* optimize_threshold_internal(&state.storage); no lock is taken and the
\* previous command's return value is gone
OptimizeThresholdCall ==
    /\ upc = "idle"
    /\ upc' = "suggest"
    /\ suggestion' = NotCalled
    /\ UNCHANGED <<prompts, analyses, threshold, interval, counter, locks,
                   wpc, wl, vocabulary, vocabFile, ul, hist, db>>

OptimizeThresholdReturn_applies(listed) ==
    /\ upc = "suggest"
    /\ upc' = "idle"
    /\ suggestion' = Returned(optimize_threshold_internal(listed, prompts))
    /\ threshold' = IF suggestion'.result.ok THEN suggestion'.result.best_threshold
                    ELSE threshold
    /\ UNCHANGED <<prompts, analyses, interval, counter, locks,
                   wpc, wl, vocabulary, vocabFile, ul, hist, db>>

\* optimize_threshold, returning: list_prompts reads the table as it is now,
\* compute_threshold runs on it and the result goes to the caller; no
\* AppState field is written
OptimizeThresholdReturn(listed) ==
    /\ upc = "suggest"
    /\ upc' = "idle"
    /\ suggestion' = Returned(optimize_threshold_internal(listed, prompts))
    /\ UNCHANGED <<prompts, analyses, threshold, interval, counter, locks,
                   wpc, wl, vocabulary, vocabFile, ul, hist, db>>

\* summarize_prompt, entered: state.vocabulary.lock().unwrap().clone(), the
\* guard dropped at the end of the statement; the command thread is inside
\* summarize_prompt_with_vocab
SummarizePromptCall(body) ==
    /\ upc = "idle"
    /\ locks.vocabulary = "free"
    /\ upc' = "summarize"
    /\ ul' = [UiLocals EXCEPT !.cmd = "summarize", !.body = body,
                              !.snapshot = vocabulary]
    /\ suggestion' = NotCalled
    /\ UNCHANGED <<prompts, analyses, threshold, interval, counter, locks,
                   wpc, wl, vocabulary, vocabFile, hist, db>>

\* summarize_prompt, returning the analysis
SummarizePromptReturn(seed) ==
    /\ upc = "summarize"
    /\ upc' = "return"
    /\ ul' = [ul EXCEPT !.analysis =
                  <<summarize_prompt_with_vocab(ul.body, ul.snapshot, seed)>>]
    /\ UNCHANGED <<prompts, analyses, suggestion, threshold, interval, counter,
                   locks, wpc, wl, vocabulary, vocabFile, hist, db>>

(***************************************************************************)
(* The watcher thread: one iteration of the loop of                        *)
(* start_clipboard_watcher, cut at every lock acquisition and I/O call.    *)
(* wpc names the call the thread is in (or about to make).                 *)
(***************************************************************************)
WatcherVars(pc, locals) == wpc' = pc /\ wl' = locals

\* thread::sleep; get_text; trim; is_potential_prompt; candidate == last
WatcherPoll(text) ==
    /\ wpc = "poll"
    /\ IF text = 0 \/ text = wl.last
       THEN UNCHANGED <<wpc, wl, db>>
       ELSE WatcherVars("lookup", [wl EXCEPT !.candidate = text, !.last = text])
    /\ UNCHANGED <<prompts, analyses, suggestion, threshold, interval, counter,
                   locks, vocabulary, vocabFile, upc, ul, hist, db>>

\* next iteration: the locals of the loop body go out of scope
NextPoll == [WatcherLocals EXCEPT !.last = wl.last]

\* match storage.find_prompt_by_body(candidate)
WatcherLookup(io) ==
    /\ wpc = "lookup"
    /\ IF io /\ ~find_prompt_by_body(prompts, wl.candidate)
       THEN WatcherVars("classify", wl)
       ELSE WatcherVars("poll", NextPoll)
    /\ UNCHANGED <<prompts, analyses, suggestion, threshold, interval, counter,
                   locks, vocabulary, vocabFile, upc, ul, hist, db>>

after_classify_closed(qwen_pred) == IF qwen_pred.some THEN "decide" ELSE "poll"

\* match classify_prompt_with_qwen { Some(..) => ..., None => fallback: accept }
after_classify(qwen_pred) == IF qwen_pred.some THEN "decide" ELSE "analyze"

WatcherClassify(reply) ==
    /\ wpc = "classify"
    /\ LET qwen_pred == classify_prompt_with_qwen(reply)
       IN  /\ WatcherVars(after_classify(qwen_pred),
                          IF after_classify(qwen_pred) = "poll" THEN NextPoll
                          ELSE [wl EXCEPT !.qwen_pred = qwen_pred])
           /\ hist' = [hist EXCEPT !.answered = hist.answered \/ qwen_pred.some]
    /\ UNCHANGED <<prompts, analyses, suggestion, threshold, interval, counter,
                   locks, vocabulary, vocabFile, upc, ul, db>>

\* f64: a finite value is its hundredfold (0.6 is 60); NaN is the value that
\* "NaN".parse::<f64>() gives, and every ordered comparison with it is false
NaN == -1
f64_ge(a, b) == a # NaN /\ b # NaN /\ a >= b
f64_lt(a, b) == a # NaN /\ b # NaN /\ a < b

skip_non_prompt_gt(flag, conf, th) == ~flag /\ f64_ge(conf, th) /\ conf # th

\* if !flag && conf >= threshold { log; continue }
skip_non_prompt(flag, conf, th) == ~flag /\ f64_ge(conf, th)

\* let threshold = *prompt_conf_threshold.lock()  (guard dropped at once),
\* then the decision; the skip's append_log runs with no lock held
WatcherDecide ==
    /\ wpc = "decide"
    /\ locks.threshold = "free"
    /\ IF skip_non_prompt(wl.qwen_pred.flag, wl.qwen_pred.conf, threshold)
       THEN WatcherVars("poll", NextPoll)
       ELSE WatcherVars("count", wl)
    /\ UNCHANGED <<prompts, analyses, suggestion, threshold, interval, counter,
                   locks, vocabulary, vocabFile, upc, ul, hist, db>>

counted_not(c) == c

\* *counter += 1
counted(c) == c + 1

WatcherLockCounter_unguarded ==
    /\ wpc = "count"
    /\ locks.counter = "free"
    /\ counter' = counted(counter)
    /\ hist' = [hist EXCEPT !.sinceRecal = hist.sinceRecal + 1]
    /\ WatcherVars("lock_interval", wl)
    /\ UNCHANGED <<prompts, analyses, suggestion, threshold, interval, locks,
                   vocabulary, vocabFile, upc, ul, db>>

\* if let Ok(mut counter) = optimize_counter.lock() { *counter += 1;
WatcherLockCounter ==
    /\ wpc = "count"
    /\ locks.counter = "free"
    /\ locks' = [locks EXCEPT !.counter = "watcher"]
    /\ counter' = counted(counter)
    /\ hist' = [hist EXCEPT !.sinceRecal = hist.sinceRecal + 1]
    /\ WatcherVars("lock_interval", wl)
    /\ UNCHANGED <<prompts, analyses, suggestion, threshold, interval,
                   vocabulary, vocabFile, upc, ul, db>>

reached_gt(c, interval_val) == c > interval_val

\* if *counter >= interval_val
reached(c, interval_val) == c >= interval_val

WatcherLockInterval_drop ==
    /\ wpc = "lock_interval"
    /\ locks.interval = "free"
    /\ IF reached(counter, Max(interval, 1))
       THEN /\ counter' = 0
            /\ locks' = [locks EXCEPT !.counter = "free", !.interval = "watcher"]
            /\ WatcherVars("list", wl)
       ELSE /\ counter' = counter
            /\ locks' = [locks EXCEPT !.counter = "free"]
            /\ WatcherVars("analyze", wl)
    /\ UNCHANGED <<prompts, analyses, suggestion, threshold, interval,
                   vocabulary, vocabFile, upc, ul, hist, db>>

\* let interval_guard = optimize_interval.lock(); interval_val = max(1);
\* if *counter >= interval_val { *counter = 0; ... } and, when not, both
\* guards are dropped at the end of the block
WatcherLockInterval ==
    /\ wpc = "lock_interval"
    /\ locks.interval = "free"
    /\ IF reached(counter, Max(interval, 1))
       THEN /\ counter' = 0
            /\ locks' = [locks EXCEPT !.interval = "watcher"]
            /\ WatcherVars("list", wl)
       ELSE /\ counter' = counter
            /\ locks' = [locks EXCEPT !.counter = "free"]
            /\ WatcherVars("analyze", wl)
    /\ UNCHANGED <<prompts, analyses, suggestion, threshold, interval,
                   vocabulary, vocabFile, upc, ul, hist, db>>

after_suggest_unchecked(sug) == "apply"

\* if let Ok(suggestion) = optimize_threshold_internal(&storage) { .. }
after_suggest(sug) == IF sug.ok THEN "apply" ELSE "analyze"

\* optimize_threshold_internal(&storage), called with the counter and the
\* interval guards alive; on Err both guards are dropped and the loop goes on
WatcherList(listed) ==
    /\ wpc = "list"
    /\ LET sug == optimize_threshold_internal(listed, prompts)
       IN  IF after_suggest(sug) = "apply"
           THEN /\ WatcherVars("apply", [wl EXCEPT !.suggestion = sug])
                /\ UNCHANGED locks
           ELSE /\ WatcherVars("analyze", wl)
                /\ locks' = [locks EXCEPT !.counter = "free", !.interval = "free"]
    /\ hist' = [hist EXCEPT !.sinceRecal = 0, !.touched = FALSE]
    /\ UNCHANGED <<prompts, analyses, suggestion, threshold, interval, counter,
                   vocabulary, vocabFile, upc, ul, db>>

\* if let Ok(mut guard) = prompt_conf_threshold.lock() { *guard = best_threshold }
WatcherApply ==
    /\ wpc = "apply"
    /\ locks.threshold = "free"
    /\ threshold' = wl.suggestion.best_threshold
    /\ WatcherVars("log", wl)
    /\ UNCHANGED <<prompts, analyses, suggestion, interval, counter, locks,
                   vocabulary, vocabFile, upc, ul, hist, db>>

\* append_log("auto-optimized threshold ..."), the two guards still alive;
\* they are dropped at the end of the block
WatcherLog ==
    /\ wpc = "log"
    /\ locks' = [locks EXCEPT !.counter = "free", !.interval = "free"]
    /\ WatcherVars("analyze", [wl EXCEPT !.suggestion = SuggestErr("")])
    /\ UNCHANGED <<prompts, analyses, suggestion, threshold, interval, counter,
                   vocabulary, vocabFile, upc, ul, hist, db>>

\* let vocab_guard = vocab.lock().unwrap().clone(): the lock is taken for the
\* clone and dropped at the end of the statement
WatcherAnalyze ==
    /\ wpc = "analyze"
    /\ locks.vocabulary = "free"
    /\ WatcherVars("summarize", wl)
    /\ UNCHANGED <<prompts, analyses, suggestion, threshold, interval, counter,
                   locks, vocabulary, vocabFile, upc, ul, hist, db>>

\* summarize_prompt_with_vocab(candidate, &vocab_guard); derive_title; with
\* no lock held
WatcherSummarize ==
    /\ wpc = "summarize"
    /\ WatcherVars("create", wl)
    /\ UNCHANGED <<prompts, analyses, suggestion, threshold, interval, counter,
                   locks, vocabulary, vocabFile, upc, ul, hist, db>>

WatcherCreate_fatal(io) ==
    /\ wpc = "create"
    /\ IF io
       THEN /\ prompts' = create_prompt(prompts, wl.candidate,
                                        Meta(JNull, pred_json(wl.qwen_pred)))
            /\ WatcherVars("create_analysis",
                           [wl EXCEPT !.prompt_id = Len(prompts) + 1])
       ELSE /\ prompts' = prompts
            /\ WatcherVars("stopped", wl)
    /\ UNCHANGED <<analyses, suggestion, threshold, interval, counter, locks,
                   vocabulary, vocabFile, upc, ul, hist, db>>

\* match storage.create_prompt(new_prompt)
WatcherCreate(io) ==
    /\ wpc = "create"
    /\ IF io
       THEN /\ prompts' = create_prompt(prompts, wl.candidate,
                                        Meta(JNull, pred_json(wl.qwen_pred)))
            /\ WatcherVars("create_analysis",
                           [wl EXCEPT !.prompt_id = Len(prompts) + 1])
       ELSE /\ prompts' = prompts
            /\ WatcherVars("poll", NextPoll)
    /\ UNCHANGED <<analyses, suggestion, threshold, interval, counter, locks,
                   vocabulary, vocabFile, upc, ul, hist, db>>

\* if let Err(err) = storage.create_analysis(record) { log }
WatcherCreateAnalysis(io) ==
    /\ wpc = "create_analysis"
    /\ analyses' = IF io THEN <<wl.prompt_id>> \o analyses ELSE analyses
    /\ WatcherVars("poll", NextPoll)
    /\ UNCHANGED <<prompts, suggestion, threshold, interval, counter, locks,
                   vocabulary, vocabFile, upc, ul, hist, db>>

Watcher ==
    \/ \E text \in ClipInputs : WatcherPoll(text)
    \/ \E io \in BOOLEAN : WatcherLookup(io)
    \/ \E reply \in QwenReplies : WatcherClassify(reply)
    \/ WatcherDecide
    \/ WatcherLockCounter
    \/ WatcherLockInterval
    \/ \E listed \in BOOLEAN : WatcherList(listed)
    \/ WatcherApply
    \/ WatcherLog
    \/ WatcherAnalyze
    \/ WatcherSummarize
    \/ \E io \in BOOLEAN : WatcherCreate(io)
    \/ \E io \in BOOLEAN : WatcherCreateAnalysis(io)

Foreground ==
    \/ \E value \in ThresholdInputs : SetPromptThreshold(value)
    \/ \E value \in IntervalInputs : SetOptimizeInterval(value)
    \/ \E id \in 1..Cardinality(Texts), lbl \in BOOLEAN : UpdatePromptLabel(id, lbl)
    \/ \E term \in TermInputs : AddVocabularyEntry(term)
    \/ \E term \in TermInputs : RemoveVocabularyEntry(term)
    \/ \E io \in BOOLEAN : VocabularyPersist(io)
    \/ VocabularyLog
    \/ VocabularyReturned

Next == Watcher \/ Foreground

Spec == Init /\ [][Next]_vars

(***************************************************************************)
(* The watcher loop beside the foreground commands that run the same       *)
(* computations on the command thread (optimize_threshold,                 *)
(* summarize_prompt), with update_prompt supplying the human labels.       *)
(***************************************************************************)
Commands ==
    \/ OptimizeThresholdCall
    \/ \E listed \in BOOLEAN : OptimizeThresholdReturn(listed)
    \/ \E body \in CommandBodies : SummarizePromptCall(body)
    \/ \E seed \in HashSeeds : SummarizePromptReturn(seed)
    \/ VocabularyReturned
    \/ \E id \in 1..Cardinality(Texts), lbl \in BOOLEAN : UpdatePromptLabel(id, lbl)

NextCommands == Watcher \/ Commands

SpecCommands == Init /\ [][NextCommands]_vars

\* the watcher thread is a thread of its own (thread::spawn) that the
\* commands never block for good: it keeps being scheduled
SpecLoop == Init /\ [][NextCommands]_vars /\ WF_vars(Watcher)

(***************************************************************************)
(* The threshold from its seed on: QWEN_PROMPT_THRESHOLD is parsed as an   *)
(* f64 and stored as it is; set_prompt_threshold and the recalibration of  *)
(* the loop write it afterwards.                                           *)
(***************************************************************************)
\* values of QWEN_PROMPT_THRESHOLD that parse: absent (0.1), "0.6", "5", "NaN"
ConfiguredThresholds == {DefaultThreshold, 60, 500, NaN}

InitSeeded ==
    /\ Boot
    /\ prompts = <<>>
    /\ threshold \in ConfiguredThresholds
    /\ interval = 1

NextSeeded ==
    \/ Watcher
    \/ \E value \in ThresholdInputs : SetPromptThreshold(value)
    \/ \E id \in 1..Cardinality(Texts), lbl \in BOOLEAN : UpdatePromptLabel(id, lbl)

SpecSeeded == InitSeeded /\ [][NextSeeded]_vars

(***************************************************************************)
(* The loop beside save_prompt: the command thread inserts a prompt with   *)
(* any body, also between the loop's find_prompt_by_body and its           *)
(* create_prompt; the prompts table has no UNIQUE constraint on body.      *)
(***************************************************************************)
InitDedup ==
    /\ Boot
    /\ prompts = <<>>
    /\ threshold = DefaultThreshold
    /\ interval = 1

NextDedup ==
    \/ Watcher
    \/ \E body \in Texts, io \in BOOLEAN : SavePrompt(body, Meta(JNull, NoPred), io)
    \/ \E id \in 1..Cardinality(Texts), lbl \in BOOLEAN : UpdatePromptLabel(id, lbl)

SpecDedup == InitDedup /\ [][NextDedup]_vars

(***************************************************************************)
(* The four Mutexes: the loop beside every command that locks one of them  *)
(* (or, like optimize_threshold, runs next to the loop's recalibration).   *)
(* A thread blocked in lock() is a thread whose next action is disabled.   *)
(***************************************************************************)
\* the store holds one prompt of an earlier run, labeled by its reader
StoredBefore ==
    create_prompt(<<>>, 1, Meta(JBool(TRUE), PredObj(JBool(FALSE), JNum(50))))

InitLocks ==
    /\ Boot
    /\ prompts = StoredBefore
    /\ threshold = DefaultThreshold
    /\ interval = 1

\* the command thread finishes the command it is in: persist_vocabulary,
\* append_log and the summary return
UiCompletes ==
    \/ \E io \in BOOLEAN : VocabularyPersist(io)
    \/ VocabularyLog
    \/ SummarizePromptReturn(0)
    \/ \E listed \in BOOLEAN : OptimizeThresholdReturn(listed)
    \/ VocabularyReturned

UiStarts ==
    \/ SetPromptThreshold(60)
    \/ \E value \in {1, MaxInterval} : SetOptimizeInterval(value)
    \/ AddVocabularyEntry(<<65>>)
    \/ RemoveVocabularyEntry(<<65>>)
    \/ ListVocabulary
    \/ SummarizePromptCall(<<>>)
    \/ OptimizeThresholdCall

NextLocks == Watcher \/ UiStarts \/ UiCompletes

\* storage, file and network calls return (WF of the running command); the
\* loop's thread is scheduled, and a Mutex that is unlocked again and again
\* is handed to the thread blocked on it (SF of the loop)
SpecLocks ==
    InitLocks /\ [][NextLocks]_vars /\ SF_vars(Watcher) /\ WF_vars(UiCompletes)

(***************************************************************************)
(* The vocabulary: setup loads the file, the commands mutate, persist,     *)
(* list and read the in-memory vector.                                     *)
(***************************************************************************)
\* JSON arrays of up to MaxFileEntries strings
FileInputs ==
    UNION {[1..n -> RawEntries] : n \in 0..MaxFileEntries}

\* setup: load_vocabulary(&vocabulary_path) has returned its list, which
\* becomes AppState.vocabulary
InitVocab ==
    /\ prompts = <<>> /\ analyses = <<>> /\ suggestion = NotCalled
    /\ threshold = DefaultThreshold /\ interval = MaxInterval /\ counter = 0
    /\ locks = LocksFree /\ wpc = "poll" /\ wl = WatcherLocals
    /\ hist = [HistInit EXCEPT !.undo = NoUndo]
    /\ db = DbEmpty
    /\ vocabFile \in FileInputs
    /\ vocabulary = load_vocabulary(vocabFile)
    /\ upc = "return"
    /\ ul = UiReturn("load", VocabOk(vocabulary))

NextVocab ==
    \/ \E term \in VocabTerms : AddVocabularyEntry(term)
    \/ \E term \in VocabTerms : RemoveVocabularyEntry(term)
    \/ \E io \in BOOLEAN : VocabularyPersist(io)
    \/ VocabularyLog
    \/ ListVocabulary
    \/ VocabularyReturned
    \/ \E body \in CommandBodies : SummarizePromptCall(body)
    \/ \E seed \in HashSeeds : SummarizePromptReturn(seed)

SpecVocab == InitVocab /\ [][NextVocab]_vars

\* summarize_prompt over the bodies and vocabularies of the analysis
InitAnalysis ==
    /\ prompts = <<>> /\ analyses = <<>> /\ suggestion = NotCalled
    /\ threshold = DefaultThreshold /\ interval = MaxInterval /\ counter = 0
    /\ locks = LocksFree /\ wpc = "poll" /\ wl = WatcherLocals /\ hist = HistInit
    /\ db = DbEmpty
    /\ vocabulary \in AnalysisVocabularies
    /\ vocabFile = vocabulary
    /\ upc = "idle"
    /\ ul = UiLocals

NextAnalysis ==
    \/ \E body \in BodyInputs : SummarizePromptCall(body)
    \/ \E seed \in HashSeeds : SummarizePromptReturn(seed)
    \/ VocabularyReturned

SpecAnalysis == InitAnalysis /\ [][NextAnalysis]_vars

(***************************************************************************)
(* compute_threshold as a function of the prompts table: save_prompt       *)
(* commands build any table of up to MaxPrompts prompts over MetaInputs    *)
(* and the optimize_threshold command applies the function to it.          *)
(***************************************************************************)
\* confidences beside a "not a prompt" flag: on the grid and between grid values
SampleConfs == {30, 45, 50, 80}

\* labeled samples (with the flag true the confidence is not read by the
\* prediction), then metadata lacking the label or part of the prediction
MetaInputs ==
    {Meta(JBool(l), PredObj(JBool(FALSE), JNum(c))) : l \in BOOLEAN, c \in SampleConfs}
    \cup {Meta(JBool(TRUE), PredObj(JBool(TRUE), JNum(90))),
          Meta(JBool(FALSE), PredObj(JBool(TRUE), JNum(50)))}
    \cup {Meta(JNull, PredObj(JBool(FALSE), JNum(80))),
          Meta(JBool(FALSE), NoPred),
          Meta(JInt(1), PredObj(JBool(FALSE), JInt(1))),
          Meta(JBool(TRUE), PredObj(JBool(TRUE), JNull)),
          Meta(JText, PredObj(JNull, JNum(50)))}

InitSuggest ==
    /\ Boot
    /\ prompts = <<>>
    /\ threshold = DefaultThreshold
    /\ interval = MaxInterval

NextSuggest ==
    \/ \E metadata \in MetaInputs, io \in BOOLEAN : SavePrompt(1, metadata, io)
    \/ OptimizeThreshold

SpecSuggest == InitSuggest /\ [][NextSuggest]_vars

(***************************************************************************)
(* The commands of the store, on the command thread.                       *)
(***************************************************************************)
\* what the commands of the store leave alone
StoreFrame ==
    UNCHANGED <<prompts, analyses, suggestion, threshold, interval, counter,
                locks, wpc, wl, vocabulary, vocabFile, hist>>

\* Utc::now() has moved on
Tick ==
    /\ db.clock < MaxClock
    /\ db' = [db EXCEPT !.clock = @ + 1]
    /\ UNCHANGED <<upc, ul>>
    /\ StoreFrame

\* save_prompt: NewPrompt from the payload, metadata.unwrap_or(Value::Null),
\* then Storage::create_prompt: the INSERT and the read of the row
SavePromptCommand(payload, io) ==
    /\ upc = "idle"
    /\ db.issued < MaxRows
    /\ LET record == [title |-> payload.title, body |-> payload.body,
                      language |-> payload.language,
                      model_hint |-> payload.model_hint,
                      metadata |-> IF payload.metadata = <<>> THEN JNull
                                   ELSE payload.metadata[1]]
           written == Storage_create_prompt(db, record)
       IN  /\ db' = IF io = "failed" THEN db ELSE written
           /\ ul' = [UiLocals EXCEPT
                       !.cmd = "save_prompt", !.payload = <<payload>>,
                       !.before = <<db>>,
                       !.out = IF io = "ok"
                               THEN OutOk(Storage_get_prompt(written, db.issued + 1)[1])
                               ELSE OutErr("storage")]
    /\ upc' = "return"
    /\ StoreFrame

\* update_prompt: the patch is the payload, field by field;
\* Storage::update_prompt, then Ok(None) becomes Err("Prompt not found")
UpdatePromptCommand(id, payload, io) ==
    /\ upc = "idle"
    /\ LET written == Storage_update_prompt(db, id, payload)
       IN  /\ db' = IF io = "failed" THEN db ELSE written
           /\ ul' = [UiLocals EXCEPT
                       !.cmd = "update_prompt", !.id = id, !.payload = <<payload>>,
                       !.before = <<db>>,
                       !.out = IF io = "failed" THEN OutErr("storage")
                               ELSE IF Storage_get_prompt(db, id) = <<>>
                               THEN OutErr("Prompt not found")
                               ELSE IF io = "lost" THEN OutErr("storage")
                               ELSE OutOk(Storage_get_prompt(written, id)[1])]
    /\ upc' = "return"
    /\ StoreFrame

\* delete_prompt: Storage::delete_prompt, Ok(affected > 0)
DeletePromptCommand(id, io) ==
    /\ upc = "idle"
    /\ db' = IF io THEN Storage_delete_prompt(db, id) ELSE db
    /\ ul' = [UiLocals EXCEPT
                !.cmd = "delete_prompt", !.id = id, !.before = <<db>>,
                !.out = IF io THEN OutOk(\E row \in db.prompts : row.id = id)
                        ELSE OutErr("storage")]
    /\ upc' = "return"
    /\ StoreFrame

\* record_analysis: Storage::create_analysis, the INSERT and the read of the
\* row; the INSERT fails on the foreign key when no prompt has the id
RecordAnalysisCommand(prompt_id, io) ==
    /\ upc = "idle"
    /\ db.issued < MaxRows
    /\ LET input == [prompt_id |-> prompt_id, summary |-> <<115>>]
           written == Storage_create_analysis(db, input)
       IN  /\ db' = IF io = "failed" THEN db ELSE written
           /\ ul' = [UiLocals EXCEPT
                       !.cmd = "record_analysis", !.id = prompt_id,
                       !.before = <<db>>,
                       !.out = IF io = "ok" /\ written # db
                               THEN OutOk(CHOOSE row \in written.analyses :
                                              row.id = db.issued + 1)
                               ELSE OutErr("storage")]
    /\ upc' = "return"
    /\ StoreFrame

\* Storage::add_attachment, called on the store
AddAttachment(prompt_id, io) ==
    /\ upc = "idle"
    /\ db.issued < MaxRows
    /\ LET payload == [prompt_id |-> prompt_id, filename |-> <<102>>]
           written == Storage_add_attachment(db, payload)
       IN  /\ db' = IF io = "failed" THEN db ELSE written
           /\ ul' = [UiLocals EXCEPT
                       !.cmd = "add_attachment", !.id = prompt_id,
                       !.before = <<db>>,
                       !.out = IF io = "ok" /\ written # db
                               THEN OutOk(CHOOSE row \in written.attachments :
                                              row.id = db.issued + 1)
                               ELSE OutErr("storage")]
    /\ upc' = "return"
    /\ StoreFrame

\* Storage::delete_attachment, called on the store
DeleteAttachment(id, io) ==
    /\ upc = "idle"
    /\ db' = IF io THEN Storage_delete_attachment(db, id) ELSE db
    /\ ul' = [UiLocals EXCEPT
                !.cmd = "delete_attachment", !.id = id, !.before = <<db>>,
                !.out = IF io THEN OutOk(\E row \in db.attachments : row.id = id)
                        ELSE OutErr("storage")]
    /\ upc' = "return"
    /\ StoreFrame

\* derive_title: the first line, trimmed, at most 80 characters of it
derive_title(body) ==
    LET ends == {i \in 1..Len(body) : body[i] = 10}
        first_line == trim(IF ends = {} THEN body
                           ELSE SubSeq(body, 1, (CHOOSE i \in ends :
                                                    \A j \in ends : i <= j) - 1))
    IN  IF first_line = <<>> THEN <<21098, 36148, 26495, 23548, 20837>>
        ELSE take(first_line, 80)

\* import_prompts_csv, entered: the file is read and the headers are; the
\* table has the columns body and latest_summary
ImportStart(table, io) ==
    /\ upc = "idle"
    /\ upc' = IF io THEN "import" ELSE "return"
    /\ ul' = [UiLocals EXCEPT
                !.cmd = "import_prompts_csv",
                !.rows = IF io THEN table ELSE <<>>,
                !.out = IF io THEN NoOut ELSE OutErr("file")]
    /\ UNCHANGED db
    /\ StoreFrame

\* what one record of the table does to the store and to `imported`:
\* found, create and analysis are the outcomes of find_prompt_by_body,
\* create_prompt and create_analysis
import_record(d, imported, row, found, create, analysis) ==
    LET body == trim(row.body)
        new_prompt == [title |-> derive_title(body), body |-> body,
                       language |-> <<>>, model_hint |-> <<>>,
                       metadata |-> JNull]
        created == Storage_create_prompt(d, new_prompt)
        summary == trim(row.summary)
        new_analysis == [prompt_id |-> d.issued + 1, summary |-> summary]
    IN  IF body = <<>> THEN [db |-> d, imported |-> imported]
        ELSE IF found /\ Storage_find_prompt_by_body(d, body) # <<>>
        THEN [db |-> d, imported |-> imported]
        ELSE IF create = "failed" THEN [db |-> d, imported |-> imported]
        ELSE IF create = "lost" THEN [db |-> created, imported |-> imported]
        ELSE [db |-> IF summary # <<>> /\ analysis
                     THEN Storage_create_analysis(created, new_analysis)
                     ELSE created,
              imported |-> imported + 1]

\* import_prompts_csv, one turn of `for result in reader.records()`: a
\* record the reader fails on ends the command with its error
ImportRow(found, create, analysis) ==
    /\ upc = "import"
    /\ ul.rows # <<>>
    /\ LET row == Head(ul.rows)
           after == import_record(db, ul.imported, row, found, create, analysis)
       IN  IF row.broken
           THEN /\ upc' = "return"
                /\ ul' = [ul EXCEPT !.rows = <<>>, !.row = <<row>>,
                                    !.before = <<db>>, !.out = OutErr("csv")]
                /\ UNCHANGED db
           ELSE /\ after.db.issued <= MaxRows
                /\ upc' = "import"
                /\ db' = after.db
                /\ ul' = [ul EXCEPT !.rows = Tail(@), !.row = <<row>>,
                                    !.before = <<db>>,
                                    !.imported = after.imported]
    /\ StoreFrame

\* import_prompts_csv, returning Ok(imported)
ImportDone ==
    /\ upc = "import"
    /\ ul.rows = <<>>
    /\ upc' = "return"
    /\ ul' = [ul EXCEPT !.out = OutOk(ul.imported)]
    /\ UNCHANGED db
    /\ StoreFrame

\* the store after Storage::new on a new file: the migrations have run
InitStore ==
    /\ prompts = <<>> /\ analyses = <<>> /\ suggestion = NotCalled
    /\ threshold = DefaultThreshold /\ interval = MaxInterval /\ counter = 0
    /\ locks = LocksFree /\ wpc = "poll" /\ wl = WatcherLocals /\ hist = HistInit
    /\ vocabulary = <<>> /\ vocabFile = <<>>
    /\ db = DbEmpty
    /\ upc = "idle"
    /\ ul = UiLocals

NextStore ==
    \/ Tick
    \/ \E payload \in PromptPayloads, io \in WriteOutcomes :
          SavePromptCommand(payload, io)
    \/ \E id \in IdInputs, payload \in UpdatePayloads, io \in WriteOutcomes :
          UpdatePromptCommand(id, payload, io)
    \/ \E id \in IdInputs, io \in BOOLEAN : DeletePromptCommand(id, io)
    \/ \E id \in IdInputs, io \in WriteOutcomes : RecordAnalysisCommand(id, io)
    \/ \E id \in IdInputs, io \in WriteOutcomes : AddAttachment(id, io)
    \/ \E id \in IdInputs, io \in BOOLEAN : DeleteAttachment(id, io)
    \/ \E table \in ImportTables, io \in BOOLEAN : ImportStart(table, io)
    \/ \E found \in BOOLEAN, create \in WriteOutcomes, analysis \in BOOLEAN :
          ImportRow(found, create, analysis)
    \/ ImportDone
    \/ VocabularyReturned

SpecStore == InitStore /\ [][NextStore]_vars

(***************************************************************************)
(* Storage::update_prompt statement by statement, for two threads that     *)
(* share the Storage (its pool hands each call a connection of its own;    *)
(* no transaction spans the statements).  In this specification upc and    *)
(* ul are indexed by the calling thread.                                   *)
(***************************************************************************)
Callers == {1, 2}
\* the locals of one call of Storage::update_prompt
CallLocals == [id |-> 0, changes |-> <<>>, existing |-> <<>>, out |-> NoOut]

\* the UPDATE of Storage::update_prompt: title, body, language, model_hint,
\* metadata and updated_at of the row with this id, when there is one
Storage_update_row(d, updated) ==
    [d EXCEPT !.prompts =
        {IF row.id = updated.id
         THEN [id |-> row.id, title |-> updated.title, body |-> updated.body,
               language |-> updated.language, model_hint |-> updated.model_hint,
               metadata |-> json_to_string(updated.metadata),
               created_at |-> row.created_at,
               updated_at |-> to_rfc3339(updated.updated_at)]
         ELSE row : row \in @}]

\* what a call of Storage::update_prompt leaves alone
UpdateFrame ==
    UNCHANGED <<prompts, analyses, suggestion, threshold, interval, counter,
                locks, wpc, wl, vocabulary, vocabFile, hist>>

\* Utc::now() has moved on
UpdateTick ==
    /\ db.clock < MaxClock
    /\ db' = [db EXCEPT !.clock = @ + 1]
    /\ UNCHANGED <<upc, ul>>
    /\ UpdateFrame

\* let existing = match self.get_prompt(id)? { Some(p) => p, None => return Ok(None) }
UpdateRead(c, id, changes) ==
    /\ upc[c] = "idle"
    /\ LET existing == Storage_get_prompt(db, id)
       IN  IF existing = <<>>
           THEN /\ upc' = [upc EXCEPT ![c] = "return"]
                /\ ul' = [ul EXCEPT ![c] = [CallLocals EXCEPT
                             !.id = id, !.changes = <<changes>>, !.out = OutOk(<<>>)]]
           ELSE /\ upc' = [upc EXCEPT ![c] = "write"]
                /\ ul' = [ul EXCEPT ![c] = [CallLocals EXCEPT
                             !.id = id, !.changes = <<changes>>, !.existing = existing]]
    /\ UNCHANGED db
    /\ UpdateFrame

\* updated = existing with the fields of the changes; updated_at = now;
\* conn.execute(UPDATE ...)
UpdateWrite(c) ==
    /\ upc[c] = "write"
    /\ db' = Storage_update_row(db, updated_prompt(ul[c].existing[1],
                                                  ul[c].changes[1], db.clock))
    /\ upc' = [upc EXCEPT ![c] = "reread"]
    /\ UNCHANGED ul
    /\ UpdateFrame

\* self.get_prompt(id): the value of the call
UpdateReread(c) ==
    /\ upc[c] = "reread"
    /\ upc' = [upc EXCEPT ![c] = "return"]
    /\ ul' = [ul EXCEPT ![c].out = OutOk(Storage_get_prompt(db, ul[c].id))]
    /\ UNCHANGED db
    /\ UpdateFrame

\* the value has gone to the caller, who may call again
UpdateReturned(c) ==
    /\ upc[c] = "return"
    /\ upc' = [upc EXCEPT ![c] = "idle"]
    /\ ul' = [ul EXCEPT ![c] = CallLocals]
    /\ UNCHANGED db
    /\ UpdateFrame

\* a store with one prompt, saved with title and body a and no metadata
InitUpdate ==
    /\ prompts = <<>> /\ analyses = <<>> /\ suggestion = NotCalled
    /\ threshold = DefaultThreshold /\ interval = MaxInterval /\ counter = 0
    /\ locks = LocksFree /\ wpc = "poll" /\ wl = WatcherLocals /\ hist = HistInit
    /\ vocabulary = <<>> /\ vocabFile = <<>>
    /\ db = Storage_create_prompt(DbEmpty,
               [title |-> <<97>>, body |-> <<97>>, language |-> <<>>,
                model_hint |-> <<>>, metadata |-> JNull])
    /\ upc = [c \in Callers |-> "idle"]
    /\ ul = [c \in Callers |-> CallLocals]

NextUpdate ==
    \/ UpdateTick
    \/ \E c \in Callers, id \in IdInputs, changes \in UpdatePayloads :
          UpdateRead(c, id, changes)
    \/ \E c \in Callers : UpdateWrite(c)
    \/ \E c \in Callers : UpdateReread(c)
    \/ \E c \in Callers : UpdateReturned(c)

SpecUpdate == InitUpdate /\ [][NextUpdate]_vars

(***************************************************************************)
(* What the claims say, stated on the stored metadata and not through the  *)
(* operators above.                                                        *)
(***************************************************************************)
\* a prompt carries a human label: "is_prompt_label" is a boolean or an integer
CarriesLabel(m) == m.is_prompt_label.kind \in {"bool", "int"}
\* a prompt carries a remote prediction: a boolean flag and a numeric confidence
CarriesPrediction(m) ==
    /\ m.qwen_clipboard_pred.object
    /\ m.qwen_clipboard_pred.is_prompt.kind = "bool"
    /\ m.qwen_clipboard_pred.confidence.kind \in {"num", "int"}
HumanLabel(m) == m.is_prompt_label.v # 0
RemoteFlag(m) == m.qwen_clipboard_pred.is_prompt.v = 1
RemoteConf(m) ==
    IF m.qwen_clipboard_pred.confidence.kind = "int"
    THEN 100 * m.qwen_clipboard_pred.confidence.v
    ELSE m.qwen_clipboard_pred.confidence.v

\* the labeled samples of a table, by position
Usable(ps) ==
    {i \in 1..Len(ps) : CarriesLabel(ps[i].metadata) /\ CarriesPrediction(ps[i].metadata)}
\* predicted is-prompt unless (flag is false and confidence >= t)
PredictedAt(m, t) == RemoteFlag(m) \/ RemoteConf(m) < t
\* number of samples whose prediction at t equals the label
CorrectAt(ps, t) ==
    Cardinality({i \in Usable(ps) : PredictedAt(ps[i].metadata, t) = HumanLabel(ps[i].metadata)})
Grid == {10 * k : k \in 0..10}

\* the command returned, and its storage listing did not fail
Suggested == suggestion.called /\ suggestion.result.err # "storage"

\* C1: for a non-empty sample set Suggest returns the lowest grid threshold
\* whose accuracy is maximal over the grid, and reports that accuracy
C1_LowestMaximizer ==
    (Suggested /\ Usable(prompts) # {}) =>
        LET r == suggestion.result
        IN  /\ r.ok
            /\ r.best_threshold \in Grid
            /\ \A t \in Grid : CorrectAt(prompts, t) <= CorrectAt(prompts, r.best_threshold)
            /\ \A t \in Grid : t < r.best_threshold =>
                   CorrectAt(prompts, t) < CorrectAt(prompts, r.best_threshold)
            /\ r.correct = CorrectAt(prompts, r.best_threshold)
            /\ r.total = Cardinality(Usable(prompts))

\* a returned suggestion whose maximum is shared by a higher threshold and is
\* not reached at 0.0
C1_Witness ==
    /\ Suggested /\ suggestion.result.ok
    /\ suggestion.result.best_threshold > 0
    /\ \E t \in Grid : /\ t > suggestion.result.best_threshold
                       /\ CorrectAt(prompts, t) = suggestion.result.correct

\* the table of scenario 3: (true, true, 0.9), (false, false, 0.8), (false, false, 0.3)
Scenario3 ==
    /\ Len(prompts) = 3
    /\ {prompts[i].metadata : i \in 1..3} =
           {Meta(JBool(TRUE), PredObj(JBool(TRUE), JNum(90))),
            Meta(JBool(FALSE), PredObj(JBool(FALSE), JNum(80))),
            Meta(JBool(FALSE), PredObj(JBool(FALSE), JNum(30)))}

\* C2 as stated: on scenario 3 the best threshold is in {0.4, ..., 0.8} and the
\* accuracy is 1.0
C2_AsStated ==
    (Suggested /\ Scenario3) =>
        /\ suggestion.result.ok
        /\ suggestion.result.best_threshold \in {40, 50, 60, 70, 80}
        /\ suggestion.result.correct = suggestion.result.total

\* C2 amended: on scenario 3 the best threshold is 0.0 and the accuracy is 1.0
\* (3 of 3); the thresholds of accuracy 1.0 are 0.0, 0.1, 0.2 and 0.3
C2_Scenario3 ==
    (Suggested /\ Scenario3) =>
        /\ suggestion.result.ok
        /\ suggestion.result.best_threshold = 0
        /\ suggestion.result.correct = 3
        /\ suggestion.result.total = 3
        /\ {t \in Grid : CorrectAt(prompts, t) = 3} = {0, 10, 20, 30}

C2_Witness == Suggested /\ Scenario3 /\ suggestion.result.ok

\* every sample's label equals (flag is true or confidence < 0.5)
Synthetic(ps) ==
    /\ Usable(ps) # {}
    /\ \A i \in Usable(ps) :
          HumanLabel(ps[i].metadata) =
              (RemoteFlag(ps[i].metadata) \/ RemoteConf(ps[i].metadata) < 50)

\* C3: on a synthetic sample set Suggest returns a threshold of accuracy 100%
C3_SyntheticPerfect ==
    (Suggested /\ Synthetic(prompts)) =>
        /\ suggestion.result.ok
        /\ suggestion.result.correct = suggestion.result.total
        /\ CorrectAt(prompts, suggestion.result.best_threshold) =
               Cardinality(Usable(prompts))

\* a synthetic set with a negative at confidence 0.5 and a positive at 0.45,
\* both flagged not-a-prompt
C3_Witness ==
    /\ Suggested /\ Synthetic(prompts) /\ suggestion.result.ok
    /\ \E i, j \in Usable(prompts) :
          /\ ~RemoteFlag(prompts[i].metadata) /\ RemoteConf(prompts[i].metadata) = 50
          /\ ~RemoteFlag(prompts[j].metadata) /\ RemoteConf(prompts[j].metadata) = 45

\* C4: the samples are exactly the prompts that carry a label and a
\* prediction, and with none of them Suggest returns an error
C4_SamplesJoin ==
    Suggested =>
        LET r == suggestion.result
            U == Usable(prompts)
        IN  /\ r.ok <=> U # {}
            /\ ~r.ok => r.err = "no labeled samples with model prediction"
            /\ r.ok =>
                  /\ r.total = Cardinality(U)
                  /\ r.positive = Cardinality({i \in U : HumanLabel(prompts[i].metadata)})
                  /\ r.negative = Cardinality({i \in U : ~HumanLabel(prompts[i].metadata)})
                  /\ r.correct = CorrectAt(prompts, r.best_threshold)

\* a suggestion over a table in which one prompt lacks the label, one lacks a
\* complete prediction and one carries both
C4_Witness ==
    /\ Suggested /\ suggestion.result.ok /\ suggestion.result.total = 1
    /\ \E i, j \in 1..Len(prompts) :
          /\ ~CarriesLabel(prompts[i].metadata) /\ CarriesPrediction(prompts[i].metadata)
          /\ CarriesLabel(prompts[j].metadata) /\ ~CarriesPrediction(prompts[j].metadata)

(***************************************************************************)
(* The watcher loop and the shared calibration state (Spec).               *)
(***************************************************************************)
\* a step of the watcher thread that leaves position pc
Leaves(pc) == wpc = pc /\ wpc' # pc
\* the positions between an accepting decision and the stored prompt
Accepted ==
    {"count", "lock_interval", "list", "apply", "log", "analyze", "summarize", "create"}
SameText == wl'.candidate = wl.candidate /\ wl'.qwen_pred = wl.qwen_pred

\* C5: with a verdict (flag, confidence) the loop rejects the text, storing
\* nothing for it, exactly when flag is false and confidence >= the live
\* threshold read at the decision; otherwise the text goes on, unchanged, to
\* local analysis and to create_prompt, and the only prompt the loop stores
\* is the accepted text with its verdict
C5_RuntimeDecision ==
    [][/\ Leaves("decide") =>
            /\ (wpc' = "poll") <=> (~wl.qwen_pred.flag /\ wl.qwen_pred.conf >= threshold)
            /\ wpc' # "poll" => (wpc' = "count" /\ SameText)
            /\ prompts' = prompts /\ analyses' = analyses
       /\ (wpc \in Accepted \ {"create"} /\ wpc' # wpc) =>
            (wpc' \in Accepted /\ SameText /\ prompts' = prompts /\ analyses' = analyses)
       /\ Len(prompts') > Len(prompts) =>
            /\ wpc = "create"
            /\ Head(prompts').body = wl.candidate
            /\ Head(prompts').metadata.qwen_clipboard_pred = pred_json(wl.qwen_pred)
      ]_vars

\* a text flagged not-a-prompt was accepted below the threshold and stored
C5_Witness ==
    /\ wpc = "create_analysis"
    /\ Head(prompts).body = wl.candidate
    /\ wl.qwen_pred.some /\ ~wl.qwen_pred.flag /\ wl.qwen_pred.conf < threshold
    /\ threshold = 60

\* C6: a failed (or unusable) classification sends the text on to local
\* analysis and storage; as long as the classifier has never answered, no
\* step of the loop changes the threshold or the counter, the counter is 0
\* and the loop is never in its decision or recalibration positions
C6_FailOpen ==
    [][/\ (Leaves("classify") /\ ~wl'.qwen_pred.some) =>
            /\ wpc' = "analyze"
            /\ wl'.candidate = wl.candidate
            /\ threshold' = threshold /\ counter' = counter
       /\ (~hist'.answered /\ (wpc' # wpc \/ wl' # wl)) =>
            (threshold' = threshold /\ counter' = counter)
       /\ ~hist'.answered =>
            /\ counter' = 0
            /\ wpc' \in {"poll", "lookup", "classify", "analyze", "summarize",
                         "create", "create_analysis"}
            /\ (wpc = "analyze" /\ wpc' # wpc) => wpc' = "summarize"
            /\ (wpc = "summarize" /\ wpc' # wpc) => wpc' = "create"
      ]_vars

\* with the classifier never having answered, a text was stored without a
\* verdict and its analysis recorded
C6_Witness ==
    /\ ~hist.answered
    /\ wpc = "poll"
    /\ Len(prompts) = 2 /\ Len(analyses) = 2
    /\ \A i \in 1..2 : prompts[i].metadata.qwen_clipboard_pred = NoPred

\* C7 as stated: every classified sample, accepted or rejected, reaches the
\* increment of the counter
C7_AsStated ==
    [][/\ Leaves("decide") => wpc' = "count"
       /\ Leaves("count") => counter' = counter + 1
      ]_vars

\* C7 amended: a classified sample the decision accepts increments the
\* counter by one (before the interval test, which may reset it to zero); a
\* sample the decision rejects leaves the counter unchanged; nothing else
\* changes the counter
C7_CountedWhenAccepted ==
    [][/\ Leaves("decide") =>
            IF ~wl.qwen_pred.flag /\ wl.qwen_pred.conf >= threshold
            THEN wpc' = "poll" /\ counter' = counter
            ELSE wpc' = "count" /\ counter' = counter
       /\ Leaves("count") => (counter' = counter + 1 /\ wpc' = "lock_interval")
       /\ Leaves("lock_interval") => counter' \in {counter, 0}
       /\ counter' # counter => wpc \in {"count", "lock_interval"}
      ]_vars

\* the second accepted sample has been counted
C7_Witness == wpc = "lock_interval" /\ counter = 2 /\ locks.counter = "watcher"

\* C8: the increment that makes the counter reach max(interval, 1) resets it
\* and runs Suggest over the stored prompts, whose best threshold replaces the
\* live one; with the interval unchanged since the last attempt (or since
\* startup) the attempt is made at the N-th counted sample, N = max(interval,
\* 1), and at no other count
C8_EveryNth ==
    [][/\ Leaves("lock_interval") =>
            IF counter >= Max(interval, 1)
            THEN counter' = 0 /\ wpc' = "list"
            ELSE counter' = counter /\ wpc' = "analyze"
       /\ (Leaves("list") /\ wpc' = "apply") =>
            /\ wl'.suggestion.ok
            /\ wl'.suggestion.total = Cardinality(Usable(prompts))
            /\ wl'.suggestion.correct = CorrectAt(prompts, wl'.suggestion.best_threshold)
            /\ \A t \in Grid : CorrectAt(prompts, t) <= wl'.suggestion.correct
       /\ Leaves("apply") => threshold' = wl.suggestion.best_threshold
       /\ wpc' = "list" => (wpc \in {"lock_interval", "list"} /\ interval' = interval)
       /\ counter' = IF wpc' = "list" THEN 0 ELSE hist'.sinceRecal
       /\ ~hist'.touched =>
            IF wpc' = "list" THEN hist'.sinceRecal = Max(interval', 1)
            ELSE IF wpc' = "lock_interval" THEN hist'.sinceRecal <= Max(interval', 1)
            ELSE hist'.sinceRecal < Max(interval', 1)
      ]_vars

\* the second counted sample under the seeded interval 2 triggered a
\* recalibration that replaced the threshold
C8_Witness ==
    /\ wpc = "log"
    /\ interval = 2 /\ ~hist.touched
    /\ threshold = wl.suggestion.best_threshold
    /\ threshold # DefaultThreshold
    /\ counter = 0

\* C9: a failed Suggest in auto-recalibration leaves the threshold as it was,
\* the counter at zero and both guards dropped, and the loop goes on to
\* analyse and store the current text; it fails whenever no stored prompt
\* carries both a label and a prediction
C9_FailedRecalibration ==
    [][/\ (Leaves("list") /\ wpc' # "apply") =>
            /\ wpc' = "analyze" /\ SameText
            /\ threshold' = threshold
            /\ counter = 0 /\ counter' = 0
            /\ locks'.counter = "free" /\ locks'.interval = "free"
       /\ (Leaves("list") /\ Usable(prompts) = {}) => wpc' = "analyze"
       /\ (threshold' # threshold /\ wpc' # wpc) => (wpc = "apply" /\ wl.suggestion.ok)
      ]_vars

\* the loop is about to analyse a counted text right after a recalibration
\* that had no usable sample
C9_Witness ==
    /\ wpc = "analyze"
    /\ wl.qwen_pred.some
    /\ counter = 0 /\ hist.sinceRecal = 0
    /\ Usable(prompts) = {}
    /\ Len(prompts) = 1
    /\ locks.counter = "free"

(***************************************************************************)
(* The loop beside the foreground commands (SpecCommands).                 *)
(***************************************************************************)
\* a thread holds none of the locks
HoldsNoLock(thread) == \A l \in DOMAIN locks : locks[l] # thread

\* C11 as stated: two Suggest computations are never in progress at the same
\* time, nor two analysis runs
C11_AsStated ==
    /\ ~(wpc = "list" /\ upc = "suggest")
    /\ ~(wpc = "summarize" /\ upc = "summarize")

\* C11 amended: the loop's own Suggest runs only with the counter and the
\* interval guards of the loop alive, which keeps every other recalibration
\* out, and its own analysis with no lock held; what can run beside them is
\* one foreground command (optimize_threshold, summarize_prompt), which
\* computes on the command thread
C11_LoopSequential ==
    /\ wpc = "list" => (locks.counter = "watcher" /\ locks.interval = "watcher")
    /\ wpc = "summarize" => HoldsNoLock("watcher")
    /\ upc \in {"suggest", "summarize"} => HoldsNoLock("ui")

\* the loop's Suggest and the command's Suggest are in progress together
C11_Witness ==
    /\ wpc = "list" /\ upc = "suggest"
    /\ locks.counter = "watcher" /\ locks.interval = "watcher"

\* the positions in which a thread is inside a storage query, a file write,
\* a log append or the remote classifier call
WatcherInIO == wpc \in {"lookup", "classify", "list", "log", "create", "create_analysis"}
UiInIO == upc \in {"persist", "log"}

\* C10: a thread inside an I/O or network call holds none of the locks
C10_NoLockAcrossIO ==
    /\ WatcherInIO => \A l \in DOMAIN locks : locks[l] # "watcher"
    /\ UiInIO => \A l \in DOMAIN locks : locks[l] # "ui"

\* the same for the watcher thread alone
C10_WatcherNoLockAcrossIO ==
    WatcherInIO => \A l \in DOMAIN locks : locks[l] # "watcher"

\* C13: whenever another thread could take the counter lock, the loop is not
\* between the counter reset of a recalibration and the write of the new
\* threshold: the pair (counter reset, old threshold) is never observable
C13_PairUnderLock ==
    locks.counter # "watcher" => wpc \notin {"list", "apply"}

\* a successful recalibration has reset the counter and not yet written the
\* new threshold, which differs from the live one a reader would get
C13_Witness ==
    /\ wpc = "apply"
    /\ counter = 0
    /\ wl.suggestion.ok /\ wl.suggestion.best_threshold # threshold
    /\ locks.threshold = "free"
    /\ locks.counter = "watcher"

\* C14: the optimize_threshold command returns the suggestion computed from
\* the stored prompts (or the failure) and none of its steps changes the
\* live threshold, the interval, the counter, the prompts or the analyses
C14_SuggestOnly ==
    [][/\ (upc' # upc /\ (upc = "suggest" \/ upc' = "suggest")) =>
            /\ threshold' = threshold /\ interval' = interval
            /\ counter' = counter /\ prompts' = prompts
            /\ analyses' = analyses /\ locks' = locks
            /\ vocabulary' = vocabulary /\ vocabFile' = vocabFile
       /\ (upc = "suggest" /\ upc' = "idle") =>
            /\ suggestion'.called
            /\ suggestion'.result.ok => Usable(prompts) # {}
            /\ suggestion'.result.ok =>
                  suggestion'.result.correct =
                      CorrectAt(prompts, suggestion'.result.best_threshold)
            /\ ~suggestion'.result.ok =>
                  suggestion'.result.err \in
                      {"storage", "no labeled samples with model prediction"}
      ]_vars

\* the command returned a best threshold other than the live one while the
\* loop had counted a sample
C14_Witness ==
    /\ upc = "idle"
    /\ suggestion.called /\ suggestion.result.ok
    /\ suggestion.result.best_threshold # threshold
    /\ counter = 1

\* the positions of the loop body
LoopPositions ==
    {"poll", "lookup", "classify", "decide", "count", "lock_interval", "list",
     "apply", "log", "analyze", "summarize", "create", "create_analysis"}

Entries(list) == {list[i] : i \in 1..Len(list)}
NoDuplicates(list) ==
    \A i, j \in 1..Len(list) : i # j => list[i] # list[j]
\* non-empty, no blank at either end, and no upper-case letter when all-ASCII
WellFormed(entry) ==
    /\ entry # <<>>
    /\ entry[1] # 32 /\ entry[Len(entry)] # 32
    /\ (\A i \in 1..Len(entry) : entry[i] < 128) =>
           (\A i \in 1..Len(entry) : entry[i] \notin 65..90)
\* a sorts strictly before b: at the first position where they differ a has
\* the lower char, or a ends there
Before(a, b) ==
    \E k \in 1..(Len(b)) :
        /\ k <= Len(a) + 1
        /\ \A i \in 1..(k - 1) : a[i] = b[i]
        /\ k <= Len(a) => char_rank(a[k]) < char_rank(b[k])
\* strictly ascending, hence sorted and duplicate-free
Ascending(list) == \A i \in 1..(Len(list) - 1) : Before(list[i], list[i + 1])

\* C15: the in-memory vocabulary has no duplicate entry and every entry is
\* non-empty, trimmed and, when all-ASCII, lower-case (a non-ASCII entry
\* keeps its case), after the load and in every state the commands lead to
C15_VocabularyNormalized ==
    /\ NoDuplicates(vocabulary)
    /\ \A i \in 1..Len(vocabulary) : WellFormed(vocabulary[i])

\* three entries, one of them non-ASCII with its upper-case letter kept, added
\* from padded and upper-case terms beside a loaded entry
C15_Witness ==
    /\ upc = "idle"
    /\ Len(vocabulary) = 3
    /\ <<65, 27721>> \in Entries(vocabulary)
    /\ <<97>> \in Entries(vocabulary)
    /\ vocabulary[1] = <<27721>>

\* what loading the persisted file would give, as a set
PersistedEntries ==
    {normalize_vocab_term(vocabFile[i]) : i \in 1..Len(vocabFile)} \ {<<>>}

\* C16: whenever add_vocabulary_entry or remove_vocabulary_entry returns
\* success, the persisted vocabulary holds exactly the in-memory entries
C16_PersistedOnSuccess ==
    (upc = "return" /\ ul.cmd \in {"add", "remove"} /\ ul.ret.ok) =>
        PersistedEntries = Entries(vocabulary)

\* C17: a failed persist returns the error and leaves the vocabulary as the
\* command mutated it (the added term in, the removed term out) and the file
\* as it was; the vocabulary changes in no other step than a command's
\* mutation, so later list_vocabulary calls return it and later analyses
\* read it
C17_NoRollback ==
    [][/\ (upc = "persist" /\ upc' = "return") =>
            /\ ul'.ret = VocabErr
            /\ vocabulary' = vocabulary /\ vocabFile' = vocabFile
            /\ ul.cmd = "add" => ul.term \in Entries(vocabulary')
            /\ ul.cmd = "remove" => ul.term \notin Entries(vocabulary')
       /\ vocabulary' # vocabulary => (upc = "idle" /\ upc' = "persist")
       /\ (upc' = "return" /\ ul'.cmd = "list") =>
            Entries(ul'.ret.list) = Entries(vocabulary)
       /\ upc' = "summarize" => ul'.snapshot = vocabulary
      ]_vars

\* list_vocabulary returns a term whose persist failed: it is not in the file
C17_Witness ==
    /\ upc = "return" /\ ul.cmd = "list" /\ ul.ret.ok
    /\ <<27721>> \in Entries(ul.ret.list)
    /\ vocabFile = <<>>

\* C18: a list handed to a caller (by load_vocabulary at setup, by
\* list_vocabulary, add_vocabulary_entry or remove_vocabulary_entry) is
\* sorted ascending, duplicate-free, and has exactly the entries of the
\* in-memory vocabulary
C18_ReturnedLists ==
    (upc = "return" /\ ul.ret.ok) =>
        /\ ul.cmd \in {"load", "list", "add", "remove"}
        /\ Ascending(ul.ret.list)
        /\ Entries(ul.ret.list) = Entries(vocabulary)
        /\ Len(ul.ret.list) = Len(vocabulary)

\* a returned list of three entries in an order other than the vocabulary's
C18_Witness ==
    /\ upc = "return" /\ ul.ret.ok /\ ul.cmd = "add"
    /\ Len(ul.ret.list) = 3
    /\ ul.ret.list # vocabulary
    /\ ul.ret.list[1] = <<65, 27721>>

(***************************************************************************)
(* The analysis record (SpecAnalysis).                                     *)
(***************************************************************************)
\* the command has an analysis to return
Analysed == upc = "return" /\ ul.cmd = "summarize" /\ ul.analysis # <<>>
\* the text of the body analysed
BodyText == concat(ul.body)
\* the positions of the text that hold no whitespace
Inked == {i \in 1..Len(BodyText) : ~is_whitespace(BodyText[i])}
FirstInked == CHOOSE i \in Inked : \A o \in Inked : i <= o
LastInked == CHOOSE i \in Inked : \A o \in Inked : i >= o
\* the keys with a count that are long enough for a tag: two chars or four
\* bytes
Survivors ==
    LET text == IF Inked = {} THEN <<>> ELSE SubSeq(BodyText, FirstInked, LastInked)
        freq == boost_vocabulary_terms(count_tokens(tokenize(cut(ul.body))),
                                       text, ul.snapshot)
    IN  {k \in DOMAIN freq : Len(k) >= 2 \/ str_len(k) >= 4}

\* C19: every analysis has between 1 and 8 suggested tags, the single tag
\* "general" when no keyword survives and surviving keywords otherwise (all
\* of them up to 8), and at most 5 target entities, in strictly ascending
\* order (sorted, no duplicate)
C19_TagAndTargetCaps ==
    Analysed =>
        LET a == ul.analysis[1]
        IN  /\ Len(a.suggested_tags) \in 1..8
            /\ Survivors = {} => a.suggested_tags = <<General>>
            /\ Survivors # {} =>
                   /\ Entries(a.suggested_tags) \subseteq Survivors
                   /\ NoDuplicates(a.suggested_tags)
                   /\ Len(a.suggested_tags) = 8 \/ Entries(a.suggested_tags) = Survivors
            /\ Len(a.target_entities) <= 5
            /\ Ascending(a.target_entities)

\* nine keywords and six targets, one of them named twice and none in order
\* in the text, analysed to 8 tags and 5 targets
C19_Witness ==
    /\ Analysed
    /\ ul.body = ManyWords
    /\ Cardinality(Survivors) = 9
    /\ Len(ul.analysis[1].suggested_tags) = 8
    /\ Len(ul.analysis[1].target_entities) = 5

\* C20: a body that is empty or all whitespace is analysed, with any
\* vocabulary, to the fixed empty-input summary, length 0, the tags
\* ["general"], no target, no theme and the role U+7A7A; any other body to
\* the fixed prefix followed by the first 160 chars of the trimmed text, and
\* to the number of chars of the trimmed text as its length
C20_SummaryAndLength ==
    Analysed =>
        LET a == ul.analysis[1]
        IN  IF Inked = {}
            THEN /\ a.summary = EmptySummary
                 /\ a.length = 0
                 /\ a.suggested_tags = <<General>>
                 /\ a.target_entities = <<>>
                 /\ ~a.theme.some
                 /\ a.role = NoRole
            ELSE /\ a.summary = SummaryPrefix
                         \o SubSeq(BodyText, FirstInked,
                                   IF LastInked - FirstInked >= 160
                                   THEN FirstInked + 159 ELSE LastInked)
                 /\ a.length = LastInked - FirstInked + 1

\* a text of 161 chars between a space and a line feed, analysed with a
\* vocabulary: the summary shows 160 of them and the length is 161
C20_Witness ==
    /\ Analysed
    /\ Len(BodyText) = 163 /\ FirstInked = 2 /\ LastInked = 162
    /\ ul.snapshot # <<>>
    /\ Len(ul.analysis[1].summary) = Len(SummaryPrefix) + 160
    /\ ul.analysis[1].length = 161

\* a body of whitespace only, analysed with a vocabulary
C20_WitnessBlank ==
    /\ Analysed
    /\ BodyText # <<>> /\ Inked = {}
    /\ ul.snapshot # <<>>

\* the counts of the analysis returned, as extract_keywords ranks them
Freq ==
    LET text == IF Inked = {} THEN <<>> ELSE SubSeq(BodyText, FirstInked, LastInked)
    IN  boost_vocabulary_terms(count_tokens(tokenize(cut(ul.body))), text, ul.snapshot)

\* C21: the analysis returned is the analysis of the same body with the same
\* vocabulary under every other hash seed, in its suggested tags (and their
\* order), theme, topic, role and targets
C21_Deterministic ==
    Analysed =>
        \A seed \in HashSeeds :
            LET a == ul.analysis[1]
                b == summarize_prompt_with_vocab(ul.body, ul.snapshot, seed)
            IN  /\ b.suggested_tags = a.suggested_tags
                /\ b.theme = a.theme
                /\ b.topic = a.topic
                /\ b.role = a.role
                /\ b.target_entities = a.target_entities

\* an analysis whose HashMap held two keys of the same count and the same
\* byte length, which two seeds yield in different orders
C21_Witness ==
    /\ Analysed
    /\ \E a, b \in Survivors :
           /\ a # b /\ Freq[a] = Freq[b] /\ str_len(a) = str_len(b)
           /\ \E s, t \in HashSeeds :
                  LET o == iteration_order(DOMAIN Freq, s)
                      q == iteration_order(DOMAIN Freq, t)
                  IN  \E i, j, k, l \in 1..Len(o) :
                          /\ o[i] = a /\ o[j] = b /\ i < j
                          /\ q[k] = a /\ q[l] = b /\ l < k

\* the trimmed text of the body analysed
TrimmedText == IF Inked = {} THEN <<>> ELSE SubSeq(BodyText, FirstInked, LastInked)
\* terms add_vocabulary_entry can add to the vocabulary: ab, ab1, the marker
\* U+7ED9, the stopword U+4EE5 U+53CA, the role pattern U+4F5C U+4E3A and !
BoostTerms ==
    {<<97, 98>>, <<97, 98, 49>>, <<32473>>, <<20197, 21450>>, <<20316, 20026>>, <<33>>}
\* the term occurs in the text, an ASCII term in any case of its letters
Occurs(term) ==
    \/ contains(TrimmedText, term)
    \/ all_ascii(term) /\ contains(str_to_lowercase(TrimmedText), term)
\* the place of a token in a list of tags, 9 (past a full list) when it is
\* not in the list
Place(tags, token) ==
    IF \E i \in 1..Len(tags) : tags[i] = token
    THEN CHOOSE i \in 1..Len(tags) : tags[i] = token
    ELSE 9

\* C22: a term that occurs in the text and is added to the vocabulary is, in
\* the tags of the run with the term added, at the place it had in the tags
\* of the run without it or at an earlier one (and in the list if it was)
C22_BoostMonotone ==
    Analysed =>
        \A term \in BoostTerms, seed \in HashSeeds :
            (Occurs(term) /\ term \notin Entries(ul.snapshot)) =>
                LET boosted == summarize_prompt_with_vocab(
                                   ul.body, Append(ul.snapshot, term), seed)
                IN  Place(boosted.suggested_tags, normalize_token(term))
                        <= Place(ul.analysis[1].suggested_tags, normalize_token(term))

\* a term that is the second tag without the boost and the first with it
C22_Witness ==
    /\ Analysed
    /\ \E term \in BoostTerms :
           /\ Occurs(term) /\ term \notin Entries(ul.snapshot)
           /\ Place(ul.analysis[1].suggested_tags, term) = 2
           /\ Place(summarize_prompt_with_vocab(
                        ul.body, Append(ul.snapshot, term), 0).suggested_tags, term) = 1

\* C23: in the suggested tags a tag of a higher count comes before one of a
\* lower count; of two tags of the same count the one of more chars comes
\* first; of two tags of the same count and the same number of chars the
\* lexicographically smaller comes first
C23_RankedByChars ==
    (Analysed /\ Survivors # {}) =>
        LET tags == ul.analysis[1].suggested_tags
        IN  \A i, j \in 1..Len(tags) :
                i < j =>
                    \/ Freq[tags[i]] > Freq[tags[j]]
                    \/ /\ Freq[tags[i]] = Freq[tags[j]]
                       /\ \/ Len(tags[i]) > Len(tags[j])
                          \/ Len(tags[i]) = Len(tags[j]) /\ Before(tags[i], tags[j])

\* the first line of the trimmed text (which starts with a char that is no
\* whitespace, so this is its first non-empty line), without the whitespace
\* at its end, cut to 32 chars
FirstLine ==
    LET text == TrimmedText
        feeds == {i \in 1..Len(text) : text[i] = 10}
        stop == IF feeds = {} THEN Len(text) + 1
                ELSE CHOOSE i \in feeds : \A o \in feeds : i <= o
        inked == {i \in 1..(stop - 1) : ~is_whitespace(text[i])}
        last == CHOOSE i \in inked : \A o \in inked : i >= o
    IN  SubSeq(text, 1, IF last > 32 THEN 32 ELSE last)
\* the tags other than the sentinel, by their places
KeywordPlaces ==
    {i \in 1..Len(ul.analysis[1].suggested_tags) :
        ul.analysis[1].suggested_tags[i] # General}

\* C24: the theme is the targets joined with U+3001 when there is a target;
\* else the first tag that is not "general"; else the first non-empty line
\* of the text cut to 32 chars; it is absent only when there is none of them
C24_ThemePrecedence ==
    Analysed =>
        LET a == ul.analysis[1]
        IN  IF a.target_entities # <<>>
            THEN a.theme = SomeString(join(a.target_entities, ThemeSeparator))
            ELSE IF KeywordPlaces # {}
            THEN a.theme = SomeString(a.suggested_tags[
                               CHOOSE i \in KeywordPlaces : \A o \in KeywordPlaces : i <= o])
            ELSE IF TrimmedText # <<>>
            THEN a.theme = SomeString(FirstLine)
            ELSE a.theme = NoString

\* five targets beside eight keywords: the theme is the targets, joined
C24_Witness ==
    /\ Analysed
    /\ Len(ul.analysis[1].target_entities) = 5
    /\ KeywordPlaces # {}
    /\ ul.analysis[1].theme.some
    /\ Len(ul.analysis[1].theme.v) = 14

\* neither target nor keyword, and a first line of 33 chars: the theme is
\* its first 32
C24_WitnessFallback ==
    /\ Analysed
    /\ ul.analysis[1].target_entities = <<>> /\ KeywordPlaces = {}
    /\ Len(TrimmedText) = 33
    /\ ul.analysis[1].theme.some /\ Len(ul.analysis[1].theme.v) = 32

\* C25 as stated: the topic of the analysis of a non-empty text is the first
\* non-empty line of the text cut to 32 chars, whatever the theme is
C25_TopicIsFirstLine ==
    (Analysed /\ TrimmedText # <<>>) => ul.analysis[1].topic = SomeString(FirstLine)

\* C25: the topic of every analysis is its theme; it is the first non-empty
\* line of the text cut to 32 chars when the text is not empty and has
\* neither a target nor a keyword, and absent when the text is empty
C25_TopicIsTheme ==
    Analysed =>
        LET a == ul.analysis[1]
        IN  /\ a.topic = a.theme
            /\ (TrimmedText # <<>> /\ a.target_entities = <<>> /\ KeywordPlaces = {})
                   => a.topic = SomeString(FirstLine)
            /\ TrimmedText = <<>> => a.topic = NoString

\* a topic that is the joined targets of a text whose first line is another
C25_Witness ==
    /\ Analysed
    /\ ul.analysis[1].target_entities # <<>>
    /\ ul.analysis[1].topic = SomeString(join(ul.analysis[1].target_entities, ThemeSeparator))
    /\ ul.analysis[1].topic # SomeString(FirstLine)

\* the first 200 chars of a text
WindowOf(text) == SubSeq(text, 1, IF Len(text) > 200 THEN 200 ELSE Len(text))
\* the places of a window where a role pattern starts
PatternStarts(window) ==
    {k \in 1..Len(window) : \E p \in RolePatterns : occurs_at(window, p, k)}
\* the clause of a window around place k: the chars between the delimiter
\* before k (or the start) and the delimiter after k (or the end), without
\* the whitespace at either end
ClauseAround(window, k) ==
    LET before == {d \in 1..(k - 1) : window[d] \in RoleDelimiters}
        after == {d \in (k + 1)..Len(window) : window[d] \in RoleDelimiters}
        lo == IF before = {} THEN 1 ELSE (CHOOSE d \in before : \A o \in before : d >= o) + 1
        hi == IF after = {} THEN Len(window)
              ELSE (CHOOSE d \in after : \A o \in after : d <= o) - 1
        inked == {i \in lo..hi : ~is_whitespace(window[i])}
    IN  SubSeq(window, CHOOSE i \in inked : \A o \in inked : i <= o,
                       CHOOSE i \in inked : \A o \in inked : i >= o)

\* C26: the role is the clause of the first 200 chars of the trimmed text
\* (clauses end at U+FF0C U+3002 U+FF1B U+FF1A . ;) in which the first role
\* pattern occurs, without the whitespace around it and cut to 48 chars; it
\* is U+7A7A when no pattern occurs in those 200 chars
C26_Role ==
    Analysed =>
        LET window == WindowOf(TrimmedText)
            starts == PatternStarts(window)
            first == CHOOSE k \in starts : \A o \in starts : k <= o
            clause == ClauseAround(window, first)
        IN  IF starts = {} THEN ul.analysis[1].role = NoRole
            ELSE ul.analysis[1].role =
                     SubSeq(clause, 1, IF Len(clause) > 48 THEN 48 ELSE Len(clause))

\* a role of 48 chars cut from the second clause, which has 52
C26_Witness ==
    /\ Analysed
    /\ ul.body = RoleLong
    /\ LET window == WindowOf(TrimmedText)
       IN  /\ PatternStarts(window) = {4}
           /\ window[3] \in RoleDelimiters
           /\ Len(ClauseAround(window, 4)) = 52
    /\ Len(ul.analysis[1].role) = 48

\* a pattern after more than 200 chars: no role
C26_WitnessFar ==
    /\ Analysed
    /\ ul.body = RoleFar
    /\ LET text == TrimmedText
       IN  \E p \in RolePatterns : occurs_at(text, p, 204)
    /\ ul.analysis[1].role = NoRole

\* a token with an ASCII digit in it
HasDigit(token) == \E i \in 1..Len(token) : token[i] \in 48..57
\* the keys the terms of the vocabulary are counted under
VocabularyKeys == {normalize_token(trim(ul.snapshot[i])) : i \in 1..Len(ul.snapshot)}

\* C27 as stated: no suggested tag is a stopword and none has an ASCII digit
C27_NoStopwordNoDigit ==
    Analysed =>
        \A i \in 1..Len(ul.analysis[1].suggested_tags) :
            /\ ul.analysis[1].suggested_tags[i] \notin STOPWORDS
            /\ ~HasDigit(ul.analysis[1].suggested_tags[i])

\* C27: no suggested tag is a stopword and none has an ASCII digit, except
\* the tags that are terms of the vocabulary (in normalized form): those
\* are counted by the booster, which filters nothing
C27_FilterButVocabulary ==
    Analysed =>
        \A i \in 1..Len(ul.analysis[1].suggested_tags) :
            ul.analysis[1].suggested_tags[i] \notin VocabularyKeys =>
                /\ ul.analysis[1].suggested_tags[i] \notin STOPWORDS
                /\ ~HasDigit(ul.analysis[1].suggested_tags[i])

\* a text with a stopword of two chars and a word with a digit, without
\* either in the vocabulary: neither is a tag
C27_Witness ==
    /\ Analysed
    /\ ul.body = <<<<20197, 21450>>, <<97, 98, 49>>>>
    /\ VocabularyKeys = {<<97, 98>>}
    /\ ul.analysis[1].suggested_tags = <<<<97, 98>>>>

\* the same text with both in the vocabulary: both are tags
C27_WitnessVocabulary ==
    /\ Analysed
    /\ ul.body = <<<<20197, 21450>>, <<97, 98, 49>>>>
    /\ Entries(ul.analysis[1].suggested_tags) = {<<20197, 21450>>, <<97, 98, 49>>}


(***************************************************************************)
(* The store.                                                              *)
(***************************************************************************)
\* a command of the store has returned: the database it started on
StartedOn == ul.before[1]
\* the rows of the prompt with this id, in the tables of d
OwnedBy(d, id) ==
    [analyses |-> {row \in d.analyses : row.prompt_id = id},
     attachments |-> {row \in d.attachments : row.prompt_id = id}]

\* C28: every stored analysis and every stored attachment refers to a stored
\* prompt, whatever commands have run; after delete_prompt has returned Ok
\* no prompt, analysis or attachment of that id is stored and the other rows
\* are as they were; and record_analysis for an id no prompt has returns an
\* error and leaves the three tables as they were
C28_ReferentialIntegrity ==
    /\ \A row \in db.analyses : \E prompt \in db.prompts : prompt.id = row.prompt_id
    /\ \A row \in db.attachments : \E prompt \in db.prompts : prompt.id = row.prompt_id
    /\ (upc = "return" /\ ul.cmd = "delete_prompt" /\ ul.out.ok) =>
          /\ db.prompts = {row \in StartedOn.prompts : row.id # ul.id}
          /\ db.analyses = {row \in StartedOn.analyses : row.prompt_id # ul.id}
          /\ db.attachments = {row \in StartedOn.attachments : row.prompt_id # ul.id}
          /\ ul.out.v[1] = (\E row \in StartedOn.prompts : row.id = ul.id)
    /\ (/\ upc = "return" /\ ul.cmd = "record_analysis"
        /\ \A row \in StartedOn.prompts : row.id # ul.id) =>
          /\ ~ul.out.ok
          /\ db.prompts = StartedOn.prompts
          /\ db.analyses = StartedOn.analyses
          /\ db.attachments = StartedOn.attachments

\* delete_prompt has removed a prompt that had an analysis
C28_Witness ==
    /\ upc = "return" /\ ul.cmd = "delete_prompt" /\ ul.out = OutOk(TRUE)
    /\ OwnedBy(StartedOn, ul.id).analyses # {}
    /\ db.analyses = {}

\* delete_prompt has removed a prompt that had an attachment
C28_WitnessAttachment ==
    /\ upc = "return" /\ ul.cmd = "delete_prompt" /\ ul.out = OutOk(TRUE)
    /\ OwnedBy(StartedOn, ul.id).attachments # {}
    /\ db.attachments = {}

\* record_analysis was refused: prompts are stored, none with the id named
C28_WitnessRefused ==
    /\ upc = "return" /\ ul.cmd = "record_analysis" /\ ~ul.out.ok
    /\ StartedOn.prompts # {}
    /\ \A row \in StartedOn.prompts : row.id # ul.id


\* C29: a turn of the import loop on a record whose trimmed body is empty,
\* or is the body of a stored prompt when the turn starts, creates no
\* prompt; and every turn adds to the count returned the number of prompts
\* it created
C29_ImportSkipsAndCounts ==
    [][(/\ upc = "import" /\ ul.rows # <<>> /\ ~Head(ul.rows).broken
        /\ upc' = "import" /\ ul'.rows = Tail(ul.rows)) =>
          LET body == trim(Head(ul.rows).body)
              created == db'.prompts \ db.prompts
          IN  /\ (body = <<>> \/ \E row \in db.prompts : row.body = body) =>
                    created = {}
              /\ ul'.imported = ul.imported + Cardinality(created)]_vars


\* the rows of d with this id
RowsOf(d, id) == {row \in d.prompts : row.id = id}
\* the field of a row after a patch: the value the patch holds, or the one
\* the row had
Patched(change, old) == IF change # <<>> THEN change[1] ELSE old

\* C30: update_prompt has returned. For an id no prompt had, its result is
\* "Prompt not found" unless storage failed (Storage::update_prompt gave
\* None), and the three tables are as they were. For an id a prompt had,
\* when it returns a record: the row of that id has the title, body,
\* language, model hint and metadata of the patch where the patch holds one
\* and the old one where it does not, the id and created_at it had, and
\* updated_at = the time of the call; every other row of the three tables
\* is as it was; and the record returned is the row as stored
C30_UpdateFrame ==
    (upc = "return" /\ ul.cmd = "update_prompt") =>
        LET changes == ul.payload[1]
        IN  IF RowsOf(StartedOn, ul.id) = {}
            THEN /\ ~ul.out.ok
                 /\ ul.out.why \in {"Prompt not found", "storage"}
                 /\ db.prompts = StartedOn.prompts
                 /\ db.analyses = StartedOn.analyses
                 /\ db.attachments = StartedOn.attachments
            ELSE ul.out.ok =>
                 \E old \in RowsOf(StartedOn, ul.id), new \in RowsOf(db, ul.id) :
                    /\ db.prompts \ {new} = StartedOn.prompts \ {old}
                    /\ db.analyses = StartedOn.analyses
                    /\ db.attachments = StartedOn.attachments
                    /\ new.title = Patched(changes.title, old.title)
                    /\ new.body = Patched(changes.body, old.body)
                    /\ new.language = Patched(changes.language, old.language)
                    /\ new.model_hint = Patched(changes.model_hint, old.model_hint)
                    /\ new.metadata =
                         IF changes.metadata # <<>>
                         THEN json_to_string(changes.metadata[1]) ELSE old.metadata
                    /\ new.created_at = old.created_at
                    /\ new.updated_at = to_rfc3339(StartedOn.clock)
                    /\ ul.out.v[1] = row_to_prompt(new)

\* update_prompt has set the title and the language of a prompt created at an
\* earlier time, which kept its body, model hint and metadata, while another
\* prompt is stored
C30_Witness ==
    /\ upc = "return" /\ ul.cmd = "update_prompt" /\ ul.out.ok
    /\ ul.payload[1].title # <<>> /\ ul.payload[1].body = <<>>
    /\ ul.out.v[1].title # (CHOOSE row \in RowsOf(StartedOn, ul.id) : TRUE).title
    /\ ul.out.v[1].updated_at # ul.out.v[1].created_at
    /\ Cardinality(db.prompts) = 2

\* update_prompt has set body, model hint and metadata
C30_WitnessBody ==
    /\ upc = "return" /\ ul.cmd = "update_prompt" /\ ul.out.ok
    /\ ul.payload[1].metadata # <<>>
    /\ ul.out.v[1].metadata = JBool(FALSE)
    /\ ul.out.v[1].model_hint = <<<<104>>>>

\* update_prompt has found no prompt of the id, with prompts stored
C30_WitnessMissing ==
    /\ upc = "return" /\ ul.cmd = "update_prompt"
    /\ ul.out = OutErr("Prompt not found")
    /\ StartedOn.prompts # {}


\* the sum of a function of finite domain
RECURSIVE SumOf(_)
SumOf(f) ==
    IF DOMAIN f = {} THEN 0
    ELSE LET k == CHOOSE k \in DOMAIN f : TRUE
         IN  f[k] + SumOf([o \in DOMAIN f \ {k} |-> f[o]])
\* the non-overlapping occurrences of a term in a text: an ASCII term in any
\* case of its letters in the lowercased text, any other term as it is
OccurrencesOf(term, text) ==
    IF all_ascii(term)
    THEN match_count(str_to_lowercase(text), str_to_lowercase(term))
    ELSE match_count(text, term)
\* the count of a key, 0 for a key without an entry
CountOf(freq, key) == IF key \in DOMAIN freq THEN freq[key] ELSE 0

\* C32: the booster adds to the entry of each vocabulary term (trimmed, not
\* empty; the entry is the one under the term's normalized form) 3 times
\* the number of non-overlapping occurrences of the term in the text, and
\* leaves every other entry, and the entry of a term that does not occur,
\* as the token counts made it (no entry where there was none)
C32_BoostAmount ==
    Analysed =>
        LET text == TrimmedText
            vocab == ul.snapshot
            counts == count_tokens(tokenize(cut(ul.body)))
            boosted == boost_vocabulary_terms(counts, text, vocab)
            terms == {i \in 1..Len(vocab) : trim(vocab[i]) # <<>>}
            added(key) ==
                3 * SumOf([i \in {t \in terms :
                                     normalize_token(trim(vocab[t])) = key} |->
                              OccurrencesOf(trim(vocab[i]), text)])
        IN  /\ \A key \in DOMAIN boosted \cup DOMAIN counts :
                  CountOf(boosted, key) = CountOf(counts, key) + added(key)
            /\ \A key \in DOMAIN boosted \ DOMAIN counts : added(key) > 0


\* the markers of a target
Markers == {TARGET_MARKERS[m] : m \in 1..Len(TARGET_MARKERS)}
\* what a token contributes to the targets as the claim has it: a token that
\* is a marker, the next token when that is meaningful; any other token that
\* contains a marker, the token without the first marker (of the list) it
\* contains when that is meaningful, else the next token when that is
\* meaningful
ExpectedTarget(tokens, idx) ==
    LET token == tokens[idx]
        next == IF idx + 1 <= Len(tokens) /\ is_meaningful(tokens[idx + 1])
                THEN <<normalize_token(tokens[idx + 1])>> ELSE <<>>
        found == {m \in 1..Len(TARGET_MARKERS) : contains(token, TARGET_MARKERS[m])}
    IN  IF token \in Markers THEN next
        ELSE IF found = {} THEN <<>>
        ELSE LET marker == TARGET_MARKERS[CHOOSE m \in found : \A o \in found : m <= o]
                 tail == trim(remove_first(token, marker))
             IN  IF is_meaningful_str(tail) THEN <<normalize_token(tail)>> ELSE next
RECURSIVE ExpectedTargetsFrom(_, _)
ExpectedTargetsFrom(tokens, idx) ==
    IF idx > Len(tokens) THEN <<>>
    ELSE ExpectedTarget(tokens, idx) \o ExpectedTargetsFrom(tokens, idx + 1)

\* C33: the targets of the analysis returned are (sorted, without
\* duplicates, the first five of) what the tokens contribute: for a token
\* that contains a marker, the token without that marker when this
\* remainder is meaningful and else the next token when that is meaningful;
\* a token that is one of the seven markers contributes only the next token
C33_Targets ==
    Analysed =>
        ul.analysis[1].target_entities =
            take(dedup(sort(ExpectedTargetsFrom(tokenize(cut(ul.body)), 1))), 5)


\* the normalized form of a term: trimmed, and in lower case when all ASCII
NormalForm(term) ==
    IF all_ascii(trim(term)) THEN str_to_lowercase(trim(term)) ELSE trim(term)
\* an entry of the list has the normalized form of the term
Present(list, term) ==
    \E i \in 1..Len(list) : NormalForm(list[i]) = NormalForm(term)

\* C39: add_vocabulary_entry of a term whose normalized form an entry has
\* leaves the vocabulary in memory as it was (it pushes only a term no entry
\* has the form of); and after add_vocabulary_entry has pushed a term,
\* remove_vocabulary_entry of a term of the same normalized form leaves the
\* entries that were there before the add
C39_AddIdempotentRemoveUndoes ==
    /\ (hist.undo.stage \in {"added", "kept"}
        /\ Present(hist.undo.before, hist.undo.term)) =>
          /\ hist.undo.stage = "kept"
          /\ vocabulary = hist.undo.before
    /\ (hist.undo.stage = "removed"
        /\ NormalForm(hist.undo.removed) = NormalForm(hist.undo.term)) =>
          /\ ~Present(hist.undo.before, hist.undo.term)
          /\ Entries(vocabulary) = Entries(hist.undo.before)

\* a term was added beside another entry and removed in another spelling
C39_Witness ==
    /\ hist.undo.stage = "removed"
    /\ hist.undo.before # <<>>
    /\ hist.undo.removed # hist.undo.term
    /\ NormalForm(hist.undo.removed) = NormalForm(hist.undo.term)
    /\ upc = "return" /\ ul.ret.ok

\* a term was added in a spelling other than the one of the entry present
C39_WitnessPresent ==
    /\ hist.undo.stage = "kept"
    /\ Present(hist.undo.before, hist.undo.term)
    /\ hist.undo.term \notin Entries(hist.undo.before)
    /\ upc = "return" /\ ul.ret.ok


(***************************************************************************)
(* The threshold, the counter and the locks.                               *)
(***************************************************************************)
\* C34: the live threshold is a value of [0, 1] in every state, whatever the
\* configuration seeded it with and whatever set_prompt_threshold calls and
\* recalibrations have run
C34_ThresholdInRange == threshold \in 0..100


\* C35 as stated: whenever the counter lock is free the counter is below
\* max(interval, 1), also when set_optimize_interval runs beside the loop
C35_CounterBelowInterval ==
    locks.counter = "free" => counter < Max(interval, 1)

\* C35: whenever the counter lock is free, and set_optimize_interval has not
\* changed the interval since the last recalibration, the counter is below
\* max(interval, 1); in any case the counter is the number of samples
\* counted since it was last reset
C35_CounterBelowUnchangedInterval ==
    locks.counter = "free" =>
        /\ counter = hist.sinceRecal
        /\ ~hist.touched => counter < Max(interval, 1)

\* a sample has been counted short of the interval, the lock is free again
C35_Witness ==
    /\ locks.counter = "free" /\ ~hist.touched
    /\ counter = 1 /\ interval = 2

\* the interval was lowered to the counter, the lock is free
C35_WitnessLowered ==
    /\ locks.counter = "free" /\ hist.touched
    /\ counter = 1 /\ interval = 1


(***************************************************************************)
(* The loop and the store.                                                 *)
(***************************************************************************)
\* the loop's create_prompt returned Ok: a row with the candidate as its body
\* was inserted by this step
LoopStored == wpc = "create" /\ wpc' = "create_analysis"

\* C31: the loop never stores a prompt whose body equals the body of a prompt
\* already in storage, also when save_prompt runs between the loop's lookup
\* and its create
C31_LoopNeverDuplicates ==
    [][LoopStored => ~find_prompt_by_body(prompts, wl.candidate)]_vars


\* the Mutex the loop locks next, by the statement it is at
WatcherAcquires ==
    [decide |-> "threshold", count |-> "counter", lock_interval |-> "interval",
     apply |-> "threshold", analyze |-> "vocabulary"]

\* C36: no deadlock among the four locks: the loop gets past each of its
\* lock() calls (counter, then interval, then threshold nested; threshold and
\* vocabulary alone), and each lock is free again and again, so that a
\* command's lock() succeeds, given that storage and file calls return
C36_EveryAcquisitionSucceeds ==
    /\ \A pc \in DOMAIN WatcherAcquires : (wpc = pc) ~> (wpc # pc)
    /\ \A l \in DOMAIN LocksFree : []<>(locks[l] = "free")

\* the loop is blocked in vocab.lock() while add_vocabulary_entry holds the
\* guard inside persist_vocabulary
C36_Witness ==
    /\ wpc = "analyze" /\ WatcherAcquires[wpc] = "vocabulary"
    /\ locks.vocabulary = "ui" /\ upc = "persist"

\* the loop holds the counter and the interval guards, about to lock the
\* threshold: set_optimize_interval would block, set_prompt_threshold not
C36_WitnessNested ==
    /\ wpc = "apply" /\ locks.counter = "watcher" /\ locks.interval = "watcher"
    /\ locks.threshold = "free" /\ upc = "idle"


\* the runtime decision let the text pass / rejected it
DecisionPassed == wpc = "decide" /\ wpc' = "count"
DecisionRejected == wpc = "decide" /\ wpc' = "poll"

\* C37: a text rejected by the runtime decision is not stored and is not
\* classified again while the clipboard still holds it; a text that passes
\* with a verdict (flag, confidence) has flag true or confidence below the
\* live threshold at that moment, and the loop stores it with that verdict
C37_RejectedNeverStored ==
    [][/\ DecisionPassed =>
            (wl.qwen_pred.flag \/ f64_lt(wl.qwen_pred.conf, threshold))
       /\ DecisionRejected => (prompts' = prompts /\ wl'.last = wl.candidate)
       /\ (wpc = "poll" /\ wpc' # "poll") => wl'.candidate # wl.last
       /\ LoopStored =>
            /\ Head(prompts').body = wl.candidate
            /\ Head(prompts').metadata.qwen_clipboard_pred = pred_json(wl.qwen_pred)
      ]_vars


(***************************************************************************)
(* Concurrent updates of one prompt.                                       *)
(***************************************************************************)
PatchFields == {"title", "body", "language", "model_hint", "metadata"}
\* the fields a patch sets
Touches(changes) == {f \in PatchFields : changes[f] # <<>>}
\* the call of thread c has returned Ok(Some(_))
ReturnedSome(c) == upc[c] = "return" /\ ul[c].out.ok /\ ul[c].out.v[1] # <<>>

\* C38: once two update_prompt calls on the same prompt with patches on
\* disjoint fields have both returned, the stored record carries the new
\* value of every field either patch sets
C38_DisjointPatchesBothApply ==
    (/\ ReturnedSome(1) /\ ReturnedSome(2)
     /\ ul[1].id = ul[2].id
     /\ Touches(ul[1].changes[1]) \cap Touches(ul[2].changes[1]) = {})
    => \A c \in Callers : \A f \in Touches(ul[c].changes[1]) :
          Storage_get_prompt(db, ul[c].id)[1][f] = ul[c].changes[1][f][1]

====
